---- MODULE Spec2Model ----
(***************************************************************************)
(* Verification model of the N-body simulator core: the per-body trail     *)
(* ring buffer (CircularTrail), the application's body store and cached    *)
(* handles (Application), the physics step (PhysicsEngine) and the         *)
(* Barnes-Hut quadtree (BarnesHutTree).                                    *)
(***************************************************************************)
EXTENDS Integers, Sequences, FiniteSets, Bags, TLC

(***************************************************************************)
(* Bounds of the model.                                                    *)
(***************************************************************************)
MaxCap == 3
MaxPoint == 2
MaxAdds == 4
MaxSteps == 2
MaxStore == 1
MaxMade == 2
MaxBodies == 3
MaxDepth == 4
MaxFrames == 3
MaxSubSteps == 5
MaxWork == 3

Max(a, b) == IF a >= b THEN a ELSE b
Min(a, b) == IF a <= b THEN a ELSE b

VARIABLES
    m_points,      \* CircularTrail::m_points, slot i of the vector is m_points[i+1]
    m_head,        \* CircularTrail::m_head
    m_size,        \* CircularTrail::m_size
    m_capacity,    \* CircularTrail::m_capacity
    trailOk,       \* FALSE once a write outside the buffer has aborted the program
    chron,         \* history: the points added and still due to be retained, oldest first
    adds,          \* history: points added since the trail was last empty
    pure,          \* history: only AddPoint has run since the trail was last empty
    lastOp         \* history: the last trail operation, its argument, pre-state and result

trailVars == <<m_points, m_head, m_size, m_capacity, trailOk, chron, adds, pure, lastOp>>

VARIABLES
    bodies,        \* the body list handed to PhysicsEngine::Update (Application::m_bodies)
    config,        \* PhysicsEngine::m_config
    m_gpuAvailable,  \* PhysicsEngine::m_gpuAvailable
    m_barnesHutTree,        \* PhysicsEngine::m_barnesHutTree (its m_root and nodes)
    stats,         \* PhysicsEngine::m_stats
    pc,            \* the statement PhysicsEngine::Update has reached, "idle" between calls
    actualDt,      \* Update's local actualDeltaTime
    phaseLog,      \* history: the phases run by the current (or last) Update call
    stepsDone,     \* history: the number of Update calls started
    callN,         \* history: the list size of the last CalculateForces call, -1 before it
    initial        \* history: the body list at construction

physVars == <<bodies, config, m_gpuAvailable, m_barnesHutTree, stats, pc, actualDt, phaseLog,
              stepsDone, callN, initial>>

VARIABLES
    m_selectedBody,        \* Application::m_selectedBody, a body address or NoBody
    m_draggedBody,         \* Application::m_draggedBody, a body address or NoBody
    m_worldMousePosition,  \* Application::m_worldMousePosition
    leftButtonDown,        \* what glfwGetMouseButton reports for the left button
    deleteKeyPressed,      \* HandleInput's static deleteKeyPressed
    m_running,             \* Application::m_running
    m_paused,              \* Application::m_paused
    removedHeld            \* history: a body left the store while a handle referred to it

appVars == <<m_selectedBody, m_draggedBody, m_worldMousePosition, leftButtonDown,
             deleteKeyPressed, m_running, m_paused, removedHeld>>

VARIABLES
    build          \* BarnesHutTree::BuildTree in progress: the statement reached, the index
                   \* of the next body of the list, the pending InsertBody calls and m_root
VARIABLES
    buildSteps     \* history: the number of steps BuildTree has taken

treeVars == <<build, buildSteps>>

VARIABLES
    lastEvent      \* history: the kind of the last event the application handled and the
                   \* number of frames it has processed

eventVars == <<lastEvent>>

VARIABLES
    frameCounter,  \* Body::UpdateTrail's static thread_local frameCounter (one thread steps)
    bodyTrails,    \* the points of Body::m_trail of each body of the list, oldest first
    subSteps       \* history: the number of integration sub-steps taken

sampleVars == <<frameCounter, bodyTrails, subSteps>>

VARIABLES
    passPc,              \* the statement the Barnes-Hut force pass has reached
    forceCalculations,   \* BarnesHutTree::m_stats.forceCalculations, shared by the threads
    workers,             \* per OpenMP thread: the statement reached in its traversals, the
                         \* contributions left to compute and the counter value it loaded
    computed,            \* history: the number of contributions computed in the pass
    statsCalculations    \* PhysicsEngine::m_stats.forceCalculations

raceVars == <<passPc, forceCalculations, workers, computed, statsCalculations>>

vars == <<trailVars, physVars, appVars, treeVars, eventVars, sampleVars, raceVars>>

Points == 1..MaxPoint
CapArgs == (0 - 1)..MaxCap
NoPoint == 0

(***************************************************************************)
(* CircularTrail, pure parts.                                              *)
(***************************************************************************)
\* CircularTrail::CircularTrail(int) and SetCapacity: std::max(1, capacity)
ClampCapacity(capacity) == Max(1, capacity)

\* a LogicalToPhysical that forgets where the oldest point is
LogicalToPhysical_mut(head, size, capacity, logicalIndex) ==
    logicalIndex % capacity

\* CircularTrail::LogicalToPhysical
LogicalToPhysical(head, size, capacity, logicalIndex) ==
    LET startPos == (head - size + capacity) % capacity
    IN  (startPos + logicalIndex) % capacity

\* CircularTrail::GetPoint on a state given by its fields; the caller checks the range
GetPointAt(points, head, size, capacity, index) ==
    points[LogicalToPhysical(head, size, capacity, index) + 1]

\* CircularTrail::GetOrderedPoints
OrderedOf(points, head, size, capacity) ==
    [i \in 1..size |-> GetPointAt(points, head, size, capacity, i - 1)]

GetOrderedPoints == OrderedOf(m_points, m_head, m_size, m_capacity)

\* a fresh std::vector<glm::vec2>(n): n value-initialised slots
FreshBuffer(n) == [i \in 1..n |-> NoPoint]

\* the copy loops of SetCapacity: newPoints[i] = GetPoint(startIndex + i), i < count
CopyInto(n, count, startIndex) ==
    [i \in 1..n |-> IF i <= count
                    THEN GetPointAt(m_points, m_head, m_size, m_capacity, startIndex + i - 1)
                    ELSE NoPoint]

\* a shrink that copies from the oldest point instead of the newest ones
ShrinkStartIndex_mut(size, newCapacity) == 0

\* SetCapacity, shrinking below the size: int startIndex = m_size - newCapacity
ShrinkStartIndex(size, newCapacity) == size - newCapacity

\* SetCapacity, the head after a copy that keeps all m_size points: m_head = m_size
HeadAfterCopy(size, newCapacity) == size

\* CircularTrail::SetCapacity as a function of the current state
SetCapacityResult(capacity) ==
    LET newCapacity == ClampCapacity(capacity)
        same == [points |-> m_points, head |-> m_head, size |-> m_size, capacity |-> m_capacity]
    IN  IF newCapacity = m_capacity THEN same
        ELSE IF newCapacity > m_capacity
        THEN [points |-> CopyInto(newCapacity, m_size, 0),
              head |-> HeadAfterCopy(m_size, newCapacity),
              size |-> m_size, capacity |-> newCapacity]
        ELSE IF newCapacity < m_size
        THEN [points |-> CopyInto(newCapacity, newCapacity, ShrinkStartIndex(m_size, newCapacity)),
              head |-> 0, size |-> newCapacity, capacity |-> newCapacity]
        ELSE [points |-> CopyInto(newCapacity, m_size, 0),
              head |-> HeadAfterCopy(m_size, newCapacity),
              size |-> m_size, capacity |-> newCapacity]

\* the abstract bounded sequence: the newest k points of s
Newest(s, k) ==
    IF Len(s) <= k THEN s ELSE SubSeq(s, Len(s) - k + 1, Len(s))

OpRecord(op, arg, result) ==
    [op |-> op, arg |-> arg, result |-> result,
     pre |-> GetOrderedPoints, preCap |-> m_capacity]

(***************************************************************************)
(* CircularTrail, operations.                                              *)
(***************************************************************************)
\* CircularTrail::CircularTrail(int capacity)
TrailInit ==
    /\ \E capacity \in CapArgs :
          /\ m_capacity = ClampCapacity(capacity)
          /\ m_points = FreshBuffer(ClampCapacity(capacity))
    /\ m_head = 0
    /\ m_size = 0
    /\ trailOk = TRUE
    /\ chron = <<>>
    /\ adds = <<>>
    /\ pure = TRUE
    /\ lastOp = [op |-> "Init", arg |-> 0, result |-> NoPoint, pre |-> <<>>,
                 preCap |-> m_capacity]

\* history kept for AddPoint
AddHistory(point) ==
    /\ chron' = Newest(Append(chron, point), m_capacity)
    /\ adds' = IF pure THEN Append(adds, point) ELSE adds
    /\ pure' = pure
    /\ lastOp' = OpRecord("AddPoint", point, NoPoint)

\* the head and size updates of AddPoint
AddAdvance ==
    /\ m_head' = (m_head + 1) % m_capacity
    /\ m_size' = IF m_size < m_capacity THEN m_size + 1 ELSE m_size
    /\ m_capacity' = m_capacity

\* CircularTrail::AddPoint with m_head inside the buffer
AddPoint(point) ==
    /\ trailOk
    /\ pure => Len(adds) < MaxAdds
    /\ m_head < Len(m_points)
    /\ m_points' = [m_points EXCEPT ![m_head + 1] = point]
    /\ AddAdvance
    /\ AddHistory(point)
    /\ trailOk' = TRUE

\* CircularTrail::AddPoint with m_head == m_points.size(): m_points[m_head] = point
\* writes past the end of the vector; the store lands outside the buffer
AddPointPastEnd(point) ==
    /\ trailOk
    /\ pure => Len(adds) < MaxAdds
    /\ m_head >= Len(m_points)
    /\ m_points' = m_points
    /\ AddAdvance
    /\ AddHistory(point)
    /\ trailOk' = TRUE

\* the same write past the end, detected by the allocator or the hardware
AddPointAbort(point) ==
    /\ trailOk
    /\ m_head >= Len(m_points)
    /\ trailOk' = FALSE
    /\ UNCHANGED <<m_points, m_head, m_size, m_capacity, chron, adds, pure, lastOp>>

\* history kept for an operation other than AddPoint that leaves `size` points
OtherHistory(size) ==
    /\ adds' = <<>>
    /\ pure' = (size = 0)

\* CircularTrail::SetCapacity
SetCapacity(capacity) ==
    /\ trailOk
    /\ LET r == SetCapacityResult(capacity)
       IN  /\ m_points' = r.points
           /\ m_head' = r.head
           /\ m_size' = r.size
           /\ m_capacity' = r.capacity
           /\ OtherHistory(r.size)
    /\ chron' = Newest(chron, ClampCapacity(capacity))
    /\ lastOp' = OpRecord("SetCapacity", capacity, NoPoint)
    /\ trailOk' = TRUE

\* CircularTrail::Reserve
Reserve(capacity) ==
    /\ trailOk
    /\ LET r == IF capacity > m_capacity
                THEN SetCapacityResult(capacity)
                ELSE [points |-> m_points, head |-> m_head, size |-> m_size,
                      capacity |-> m_capacity]
       IN  /\ m_points' = r.points
           /\ m_head' = r.head
           /\ m_size' = r.size
           /\ m_capacity' = r.capacity
           /\ OtherHistory(r.size)
    /\ chron' = chron
    /\ lastOp' = OpRecord("Reserve", capacity, NoPoint)
    /\ trailOk' = TRUE

\* CircularTrail::Clear
Clear ==
    /\ trailOk
    /\ m_head' = 0
    /\ m_size' = 0
    /\ UNCHANGED <<m_points, m_capacity>>
    /\ chron' = <<>>
    /\ adds' = <<>>
    /\ pure' = TRUE
    /\ lastOp' = OpRecord("Clear", 0, NoPoint)
    /\ trailOk' = TRUE

OutOfRange == 0 - 1

\* CircularTrail::GetPoint: throws std::out_of_range or returns the stored point
GetPointResult(index) ==
    IF index < 0 \/ index >= m_size
    THEN OutOfRange
    ELSE GetPointAt(m_points, m_head, m_size, m_capacity, index)

GetPoint(index) ==
    /\ trailOk
    /\ lastOp' = OpRecord("GetPoint", index, GetPointResult(index))
    /\ UNCHANGED <<m_points, m_head, m_size, m_capacity, trailOk, chron, adds, pure>>

\* the engine and the application are not involved in a trail operation
TrailAlone == UNCHANGED <<physVars, appVars, treeVars, eventVars, sampleVars, raceVars>>

TrailNext ==
    \/ \E point \in Points : AddPoint(point) /\ TrailAlone
    \/ \E point \in Points : AddPointPastEnd(point) /\ TrailAlone
    \/ \E point \in Points : AddPointAbort(point) /\ TrailAlone
    \/ \E capacity \in CapArgs : SetCapacity(capacity) /\ TrailAlone
    \/ \E capacity \in CapArgs : Reserve(capacity) /\ TrailAlone
    \/ Clear /\ TrailAlone
    \/ \E index \in (0 - 1)..MaxCap : GetPoint(index) /\ TrailAlone


(***************************************************************************)
(* Exact arithmetic standing in for float: a scalar is a fraction n/d in    *)
(* lowest terms with d > 0, a glm::vec2 is a pair of scalars.               *)
(***************************************************************************)
RECURSIVE GCD(_, _)
GCD(a, b) == IF b = 0 THEN a ELSE GCD(b, a % b)

Abs(a) == IF a < 0 THEN 0 - a ELSE a

\* a float value as a fraction in lowest terms; a result finer than 1/1000 is
\* rounded to the nearest point of the 1/1000 grid, as float arithmetic rounds
\* to its mantissa
Reduced(n, d) ==
    LET g == GCD(Abs(n), Abs(d))
        sgn == IF d < 0 THEN 0 - 1 ELSE 1
    IN  IF n = 0 THEN [n |-> 0, d |-> 1]
        ELSE [n |-> sgn * (n \div g), d |-> sgn * (d \div g)]

\* the multiple of 1/1000 nearest to rest / d, for 0 <= rest < d
NearestThousandth(rest, d) ==
    IF d <= 1000000 THEN (rest * 2000 + d) \div (2 * d)
    ELSE ((rest \div 1000) * 2000 + (d \div 1000)) \div (2 * (d \div 1000))

\* the rounding of a fraction in lowest terms to the 1/1000 grid
RoundToGrid(r) ==
    IF r.d <= 1000 THEN r
    ELSE Reduced((r.n \div r.d) * 1000 + NearestThousandth(r.n % r.d, r.d), 1000)

\* the float nearest to n / d
Frac(n, d) == RoundToGrid(Reduced(n, d))

Num(k) == [n |-> k, d |-> 1]
RZero == Num(0)
ROne == Num(1)
RAdd(a, b) == Frac(a.n * b.d + b.n * a.d, a.d * b.d)
RSub(a, b) == Frac(a.n * b.d - b.n * a.d, a.d * b.d)
RMul(a, b) == Frac(a.n * b.n, a.d * b.d)
RDiv(a, b) == Frac(a.n * b.d, a.d * b.n)
\* sums and halvings that floats carry out without rounding (quadtree geometry)
RAddExact(a, b) ==
    LET g == GCD(a.d, b.d)
    IN  Reduced(a.n * (b.d \div g) + b.n * (a.d \div g), (a.d \div g) * b.d)
RSubExact(a, b) == RAddExact(a, [n |-> 0 - b.n, d |-> b.d])
RHalf(a) == Reduced(a.n, 2 * a.d)
RNeg(a) == [n |-> 0 - a.n, d |-> a.d]
RAbs(a) == [n |-> Abs(a.n), d |-> a.d]
RLess(a, b) == a.n * b.d < b.n * a.d
RLeq(a, b) == a.n * b.d <= b.n * a.d
RMax(a, b) == IF RLess(a, b) THEN b ELSE a
RMin(a, b) == IF RLess(b, a) THEN b ELSE a

\* integer square root, rounded down
RECURSIVE ISqrtBetween(_, _, _)
ISqrtBetween(k, lo, hi) ==
    IF lo >= hi THEN lo
    ELSE LET mid == (lo + hi + 1) \div 2
         IN  IF mid * mid <= k THEN ISqrtBetween(k, mid, hi)
             ELSE ISqrtBetween(k, lo, mid - 1)

ISqrt(k) == ISqrtBetween(k, 0, Min(k, 46340))

\* the root of a.n / a.d given the integer roots rn, rd of its terms
RootFrom(a, rn, rd) ==
    IF rn * rn = a.n /\ rd * rd = a.d THEN Frac(rn, rd)
    ELSE IF a.n <= 2000 THEN Frac(ISqrt((a.n * 1000000) \div a.d), 1000)
    ELSE Frac(ISqrt((a.n * 100) \div a.d), 10)

\* std::sqrt: exact on squares of fractions, otherwise rounded down to 1/1000
RSqrt(a) == RootFrom(a, ISqrt(a.n), ISqrt(a.d))

Vec(x, y) == [x |-> x, y |-> y]
VZero == Vec(RZero, RZero)
VAdd(u, v) == Vec(RAdd(u.x, v.x), RAdd(u.y, v.y))
VSub(u, v) == Vec(RSub(u.x, v.x), RSub(u.y, v.y))
VScale(u, k) == Vec(RMul(u.x, k), RMul(u.y, k))
VDivide(u, k) == Vec(RDiv(u.x, k), RDiv(u.y, k))
VDot(u, v) == RAdd(RMul(u.x, v.x), RMul(u.y, v.y))
\* glm::length
VLength(u) ==
    IF u.y.n = 0 THEN RAbs(u.x)
    ELSE IF u.x.n = 0 THEN RAbs(u.y)
    ELSE RSqrt(VDot(u, u))

(***************************************************************************)
(* Bodies and the physics configuration.  A body is a record; `id` stands   *)
(* for the address of the Body object (what a Body* compares equal on).     *)
(***************************************************************************)
NoBody == 0

\* Body::MIN_RADIUS, Body::MAX_RADIUS
MIN_RADIUS == 2
MAX_RADIUS == 100

\* Body::UpdateRadius: the clamp of sqrt(area) to [MIN_RADIUS, MAX_RADIUS]
RadiusOfArea(area) ==
    IF RLeq(area, Num(MIN_RADIUS * MIN_RADIUS)) THEN Num(MIN_RADIUS)
    ELSE IF RLeq(Num(MAX_RADIUS * MAX_RADIUS), area) THEN Num(MAX_RADIUS)
    ELSE RSqrt(area)

\* Body::UpdateRadius: sqrt(mass / (3.14159 * density)) clamped to [MIN_RADIUS, MAX_RADIUS]
UpdateRadius(mass, density) ==
    RadiusOfArea(RDiv(mass, RMul(Frac(314159, 100000), density)))

\* Body::DEFAULT_DENSITY = 0.1f
DEFAULT_DENSITY == Frac(1, 10)

\* Body::Body: the mass is stored as given, the density is DEFAULT_DENSITY
BodyCtor(id, position, velocity, mass) ==
    [id |-> id, pos |-> position, vel |-> velocity, acc |-> VZero, force |-> VZero,
     mass |-> mass, density |-> DEFAULT_DENSITY, radius |-> UpdateRadius(mass, DEFAULT_DENSITY),
     fixed |-> FALSE, dragged |-> FALSE, selected |-> FALSE]

\* Body::SetMass after the std::max: the mass stored, the radius refreshed
StoreMass(body, mass) ==
    [body EXCEPT !.mass = mass, !.radius = UpdateRadius(mass, body.density)]

\* Body::SetMass: m_mass = std::max(0.1f, mass); UpdateRadius()
SetMass(body, mass) == StoreMass(body, RMax(Frac(1, 10), mass))

\* Body::SetDensity after the std::max: the density stored, the radius refreshed
StoreDensity(body, density) ==
    [body EXCEPT !.density = density, !.radius = UpdateRadius(body.mass, density)]

\* Body::SetDensity: m_density = std::max(0.001f, density); UpdateRadius()
SetDensity(body, density) == StoreDensity(body, RMax(Frac(1, 1000), density))

\* Body::Body followed by Body::SetDensity, with the fixed flag as given
NewBody(id, position, velocity, mass, density, fixed) ==
    [SetDensity(BodyCtor(id, position, velocity, mass), density) EXCEPT !.fixed = fixed]

\* PhysicsEngine.cpp: static constexpr float MAX_FORCE
MAX_FORCE == 10000

\* distanceSquared > 1e-10f: on the modelled values (denominators below 10^10)
\* a squared distance exceeds 1e-10 exactly when it is not zero
AboveDegenerate(distanceSquared) == distanceSquared.n > 0

\* CalculateGravitationalForce from `direction` and `distanceSquared` on
GravitationalForceAt(direction, distanceSquared, massB, G, softeningLength) ==
    LET softenedDistanceSquared == RAdd(distanceSquared, RMul(softeningLength, softeningLength))
        forceMagnitude == RDiv(RMul(G, massB), softenedDistanceSquared)
        invDistance == RDiv(ROne, RSqrt(distanceSquared))
    IN  IF AboveDegenerate(distanceSquared)
        THEN VScale(VScale(direction, forceMagnitude), invDistance)
        ELSE VZero

\* CalculateGravitationalForce from `direction` on
GravitationalForceAlong(direction, massB, G, softeningLength) ==
    GravitationalForceAt(direction, VDot(direction, direction), massB, G, softeningLength)

\* PhysicsEngine::CalculateGravitationalForce
CalculateGravitationalForce(positionA, positionB, massB, G, softeningLength) ==
    GravitationalForceAlong(VSub(positionB, positionA), massB, G, softeningLength)

\* CalculateForcesDirect: the cap, given forceMagnitude = glm::length(force)
ClampTo(force, forceMagnitude) ==
    IF RLess(Num(MAX_FORCE), forceMagnitude)
    THEN VScale(VDivide(force, forceMagnitude), Num(MAX_FORCE))
    ELSE force

\* CalculateForcesDirect: cap the magnitude of one pair's force at MAX_FORCE
ClampForce(force) == ClampTo(force, VLength(force))

\* CalculateForcesDirect, the inner loop over j for receiver i (j runs from `j` up)
RECURSIVE DirectTotalForce(_, _, _, _)
DirectTotalForce(bs, i, j, cfg) ==
    IF j > Len(bs) THEN VZero
    ELSE IF j = i THEN DirectTotalForce(bs, i, j + 1, cfg)
    ELSE VAdd(ClampForce(CalculateGravitationalForce(bs[i].pos, bs[j].pos, bs[j].mass,
                                                      cfg.gravitationalConstant,
                                                      cfg.softeningLength)),
              DirectTotalForce(bs, i, j + 1, cfg))

\* Body::ApplyForce
ApplyForce(body, force) == [body EXCEPT !.force = VAdd(body.force, force)]

\* Body::ClearForce
ClearForce(body) == [body EXCEPT !.force = VZero]

\* CalculateForces, the pre-pass that clears every body's force
ClearForces(bs) == [i \in 1..Len(bs) |-> ClearForce(bs[i])]

\* PhysicsEngine::CalculateForcesDirect
CalculateForcesDirect(bs, cfg) ==
    [i \in 1..Len(bs) |->
        IF bs[i].fixed THEN bs[i]
        ELSE ApplyForce(bs[i], DirectTotalForce(bs, i, 1, cfg))]

\* CalculateForcesDirect: m_stats.forceCalculations after the pass
DirectForceCalculations(bs) ==
    Cardinality({i \in 1..Len(bs) : ~bs[i].fixed}) * (Len(bs) - 1)

(***************************************************************************)
(* The Barnes-Hut quadtree.  A tree is a function from paths (the sequence  *)
(* of child indices leading from the root) to nodes; m_root == nullptr is   *)
(* the tree without root.                                                   *)
(***************************************************************************)
\* BarnesHutTree::SOFTENING_LENGTH = 0.01f, MIN_NODE_SIZE = 0.001f
SOFTENING_LENGTH == Frac(1, 100)
MIN_NODE_SIZE == Frac(1, 1000)

RootPath == <<>>
NullTree == [hasRoot |-> FALSE, nodes |-> <<>>]

\* a default-constructed QuadTreeNode placed at `center` with extent `size`
NewNode(center, size) ==
    [center |-> center, size |-> size, totalMass |-> RZero, centerOfMass |-> VZero,
     body |-> NoBody, isLeaf |-> TRUE]

\* QuadTreeNode::Contains, given halfSize = size * 0.5f
Within(center, halfSize, point) ==
    /\ RLeq(RSubExact(center.x, halfSize), point.x)
    /\ RLeq(point.x, RAddExact(center.x, halfSize))
    /\ RLeq(RSubExact(center.y, halfSize), point.y)
    /\ RLeq(point.y, RAddExact(center.y, halfSize))

\* QuadTreeNode::Contains
Contains(node, point) == Within(node.center, RHalf(node.size), point)

\* QuadTreeNode::GetQuadrant
GetQuadrant(node, point) ==
    (IF RLess(node.center.x, point.x) THEN 1 ELSE 0)
    + (IF RLess(node.center.y, point.y) THEN 2 ELSE 0)

\* QuadTreeNode::GetChildCenter, given quarter = size * 0.25f
ChildCenterAt(center, quarter, quadrant) ==
    Vec(IF quadrant % 2 = 1 THEN RAddExact(center.x, quarter)
                            ELSE RSubExact(center.x, quarter),
        IF quadrant \div 2 = 1 THEN RAddExact(center.y, quarter)
                               ELSE RSubExact(center.y, quarter))

\* QuadTreeNode::GetChildCenter
GetChildCenter(node, quadrant) == ChildCenterAt(node.center, RHalf(RHalf(node.size)), quadrant)

\* BarnesHutTree::Subdivide
Subdivide(nodes, path) ==
    LET node == nodes[path]
        childSize == RHalf(node.size)
    IN  [p \in (DOMAIN nodes) \cup {Append(path, i) : i \in 0..3} |->
            IF p \in DOMAIN nodes THEN nodes[p]
            ELSE NewNode(GetChildCenter(node, p[Len(p)]), childSize)]

\* dereferencing a Body* that points into the body list
BodyById(bs, id) == bs[CHOOSE i \in 1..Len(bs) : bs[i].id = id]

\* glm::dot(delta, delta) < 1e-12f: on the modelled values, exactly when delta is zero
IsZeroVector(delta) == VDot(delta, delta).n = 0

\* InsertBody: the two bodies lie on the same point
Colocated(posA, posB) == IsZeroVector(VSub(posA, posB))

\* InsertBody on an occupied leaf: current->body = nullptr; current->isLeaf = false;
\* Subdivide(current)
MakeInternal_mut(nodes, path) == Subdivide([nodes EXCEPT ![path].isLeaf = FALSE], path)

MakeInternal(nodes, path) ==
    Subdivide([nodes EXCEPT ![path].body = NoBody, ![path].isLeaf = FALSE], path)

\* BarnesHutTree::InsertBody
RECURSIVE InsertBody(_, _, _, _)
InsertBody(nodes, path, body, bs) ==
    LET current == nodes[path]
    IN  IF ~Contains(current, body.pos) THEN nodes
        ELSE IF current.isLeaf
        THEN IF current.body = NoBody
             THEN [nodes EXCEPT ![path].body = body.id]
             ELSE LET existingBody == BodyById(bs, current.body)
                  IN  IF Colocated(existingBody.pos, body.pos) THEN nodes
                      ELSE LET split == MakeInternal(nodes, path)
                               existingQuadrant == GetQuadrant(current, existingBody.pos)
                               placed == InsertBody(split, Append(path, existingQuadrant),
                                                    existingBody, bs)
                               newQuadrant == GetQuadrant(current, body.pos)
                           IN  InsertBody(placed, Append(path, newQuadrant), body, bs)
        ELSE InsertBody(nodes, Append(path, GetQuadrant(current, body.pos)), body, bs)

\* totalMass > 1e-9f / childMass > 0.0f on the modelled values
IsPositive(a) == a.n > 0

\* UpdateMassAndCenter: a child's share of the sums (childMass > 0.0f)
ChildMass_mut(nodes, path, i) ==
    IF IsPositive(nodes[Append(path, i)].totalMass) /\ i < 3
    THEN nodes[Append(path, i)].totalMass
    ELSE RZero

ChildMass(nodes, path, i) ==
    IF IsPositive(nodes[Append(path, i)].totalMass) THEN nodes[Append(path, i)].totalMass
    ELSE RZero

\* UpdateMassAndCenter: a child's share of weightedPositionSum
ChildWeighted(nodes, path, i) ==
    IF IsPositive(nodes[Append(path, i)].totalMass)
    THEN VScale(nodes[Append(path, i)].centerOfMass, nodes[Append(path, i)].totalMass)
    ELSE VZero

\* UpdateMassAndCenter: the node's fields written from the sums over its children
SetMassAndCenter(nodes, path, totalMass, weightedPositionSum) ==
    [nodes EXCEPT ![path].totalMass = totalMass,
                  ![path].centerOfMass = IF IsPositive(totalMass)
                                         THEN VDivide(weightedPositionSum, totalMass)
                                         ELSE nodes[path].center]

\* UpdateMassAndCenter on an internal node whose children are up to date
SumChildren(nodes, path) ==
    SetMassAndCenter(nodes, path,
        RAdd(RAdd(ChildMass(nodes, path, 0), ChildMass(nodes, path, 1)),
             RAdd(ChildMass(nodes, path, 2), ChildMass(nodes, path, 3))),
        VAdd(VAdd(ChildWeighted(nodes, path, 0), ChildWeighted(nodes, path, 1)),
             VAdd(ChildWeighted(nodes, path, 2), ChildWeighted(nodes, path, 3))))

\* BarnesHutTree::UpdateMassAndCenter
RECURSIVE UpdateMassAndCenter(_, _, _)
UpdateMassAndCenter(nodes, path, bs) ==
    IF nodes[path].isLeaf
    THEN IF nodes[path].body # NoBody
         THEN [nodes EXCEPT ![path].totalMass = BodyById(bs, nodes[path].body).mass,
                            ![path].centerOfMass = BodyById(bs, nodes[path].body).pos]
         ELSE [nodes EXCEPT ![path].totalMass = RZero,
                            ![path].centerOfMass = VZero]
    ELSE SumChildren(
            UpdateMassAndCenter(
                UpdateMassAndCenter(
                    UpdateMassAndCenter(
                        UpdateMassAndCenter(nodes, Append(path, 0), bs),
                        Append(path, 1), bs),
                    Append(path, 2), bs),
                Append(path, 3), bs),
            path)

\* BarnesHutTree::CalculateBounds, the min/max scan over bodies[1..]
RECURSIVE MinOver(_, _)
MinOver(values, i) ==
    IF i = Len(values) THEN values[i] ELSE RMin(values[i], MinOver(values, i + 1))

RECURSIVE MaxOver(_, _)
MaxOver(values, i) ==
    IF i = Len(values) THEN values[i] ELSE RMax(values[i], MaxOver(values, i + 1))

\* the padding factor of CalculateBounds: size *= 1.2f
BoundsPadding == Frac(12, 10)

\* CalculateBounds: center and size from the corners minPos, maxPos
BoundsBetween(minPos, maxPos) ==
    LET sizeX == RMax(RSub(maxPos.x, minPos.x), Frac(1, 10))
        sizeY == RMax(RSub(maxPos.y, minPos.y), Frac(1, 10))
    IN  [center |-> VScale(VAdd(minPos, maxPos), Frac(1, 2)),
         size |-> RMax(RMul(RMax(sizeX, sizeY), BoundsPadding), MIN_NODE_SIZE)]

\* BarnesHutTree::CalculateBounds (non-empty list)
CalculateBounds(bs) ==
    LET xs == [i \in 1..Len(bs) |-> bs[i].pos.x]
        ys == [i \in 1..Len(bs) |-> bs[i].pos.y]
    IN  BoundsBetween(Vec(MinOver(xs, 1), MinOver(ys, 1)), Vec(MaxOver(xs, 1), MaxOver(ys, 1)))

\* BuildTree, the insertion loop over the body list
RECURSIVE InsertAll(_, _, _)
InsertAll(nodes, bs, i) ==
    IF i > Len(bs) THEN nodes
    ELSE InsertAll(IF Contains(nodes[RootPath], bs[i].pos)
                   THEN InsertBody(nodes, RootPath, bs[i], bs)
                   ELSE nodes,
                   bs, i + 1)

\* BuildTree: m_root = std::make_unique<QuadTreeNode>(center, size)
RootAt(bounds) == [p \in {RootPath} |-> NewNode(bounds.center, bounds.size)]

\* BarnesHutTree::BuildTree
BuildTree(bs) ==
    IF Len(bs) = 0 THEN NullTree
    ELSE [hasRoot |-> TRUE,
          nodes |-> UpdateMassAndCenter(InsertAll(RootAt(CalculateBounds(bs)), bs, 1),
                                        RootPath, bs)]

\* sizeToDistRatio < theta with sizeToDistRatio = size / (distance + 1e-10f): the
\* float sum distance + 1e-10f is distance itself unless distance is 0, where the
\* ratio is far above any theta
FarEnough(size, distance, theta) == RLess(size, RMul(theta, distance))

\* the contribution both branches of CalculateForceIterative add for one node
NodeContribution(node, bodyToNode, distanceSq, distance, G) ==
    LET softenedDistSq == RAdd(distanceSq, RMul(SOFTENING_LENGTH, SOFTENING_LENGTH))
        forceMagnitude == RDiv(RMul(G, node.totalMass), softenedDistSq)
    IN  VDivide(VScale(bodyToNode, forceMagnitude), distance)

\* the children of an internal node pushed for i = 3 down to 0
PushChildren(stack, path) ==
    stack \o <<Append(path, 3), Append(path, 2), Append(path, 1), Append(path, 0)>>

RECURSIVE TraverseStack(_, _, _, _, _, _)
\* CalculateForceIterative: one popped node, its distance from the body known
VisitNode(nodes, rest, path, bodyToNode, distanceSq, distance, body, theta, G, acc) ==
    LET node == nodes[path]
        added == [force |-> VAdd(acc.force,
                                 NodeContribution(node, bodyToNode, distanceSq, distance, G)),
                  count |-> acc.count + 1]
    IN  IF ~IsPositive(node.totalMass)
        THEN TraverseStack(nodes, rest, body, theta, G, acc)
        ELSE IF node.isLeaf /\ node.body = body.id
        THEN TraverseStack(nodes, rest, body, theta, G, acc)
        ELSE IF FarEnough(node.size, distance, theta)
        THEN IF ~IsPositive(distanceSq)
             THEN TraverseStack(nodes, rest, body, theta, G, acc)
             ELSE TraverseStack(nodes, rest, body, theta, G, added)
        ELSE IF node.isLeaf
        THEN IF node.body = NoBody \/ ~IsPositive(distanceSq)
             THEN TraverseStack(nodes, rest, body, theta, G, acc)
             ELSE TraverseStack(nodes, rest, body, theta, G, added)
        ELSE TraverseStack(nodes, PushChildren(rest, path), body, theta, G, acc)

\* CalculateForceIterative: bodyToNode, distanceSq and distance of the popped node
VisitAt(nodes, rest, path, bodyToNode, distanceSq, body, theta, G, acc) ==
    VisitNode(nodes, rest, path, bodyToNode, distanceSq, RSqrt(distanceSq), body, theta, G, acc)

\* CalculateForceIterative: bodyToNode = node->centerOfMass - body.GetPosition()
VisitToward(nodes, rest, path, bodyToNode, body, theta, G, acc) ==
    VisitAt(nodes, rest, path, bodyToNode, VDot(bodyToNode, bodyToNode), body, theta, G, acc)

\* BarnesHutTree::CalculateForceIterative, the loop over the traversal stack;
\* `acc` carries totalForce and the number of contributions added
TraverseStack(nodes, stack, body, theta, G, acc) ==
    IF Len(stack) = 0 THEN acc
    ELSE VisitToward(nodes, SubSeq(stack, 1, Len(stack) - 1), stack[Len(stack)],
                     VSub(nodes[stack[Len(stack)]].centerOfMass, body.pos),
                     body, theta, G, acc)

\* BarnesHutTree::CalculateForce / CalculateForceIterative
CalculateForce(tree, body, theta, G) ==
    IF ~tree.hasRoot \/ ~IsPositive(tree.nodes[RootPath].totalMass)
    THEN [force |-> VZero, count |-> 0]
    ELSE TraverseStack(tree.nodes, <<RootPath>>, body, theta, G,
                       [force |-> VZero, count |-> 0])

\* PhysicsEngine::CalculateForcesBarnesHut, the forces written (tree already built)
BarnesHutForces(bs, cfg, tree) ==
    [i \in 1..Len(bs) |->
        IF bs[i].fixed THEN bs[i]
        ELSE ApplyForce(bs[i], CalculateForce(tree, bs[i], cfg.barnesHutTheta,
                                              cfg.gravitationalConstant).force)]

(***************************************************************************)
(* PhysicsEngine: the remaining force kernels, collisions and integration.  *)
(***************************************************************************)
\* one term of the sum: softened = d^2 + eps^2 and distance_i_j = softened^1.5 known
PowerLawTermAt(vector_i_j, distance_i_j, mass, cfg) ==
    IF IsPositive(distance_i_j)
    THEN VScale(vector_i_j, RDiv(RMul(cfg.gravitationalConstant, mass), distance_i_j))
    ELSE VZero

\* one term of the sum, softened = d^2 + eps^2 known
PowerLawTermOf(vector_i_j, softened, mass, cfg) ==
    PowerLawTermAt(vector_i_j, RMul(softened, RSqrt(softened)), mass, cfg)

\* one term of the sum for the vector from receiver i to source j
PowerLawTerm(vector_i_j, mass, cfg) ==
    PowerLawTermOf(vector_i_j,
                   RAdd(VDot(vector_i_j, vector_i_j),
                        RMul(cfg.softeningLength, cfg.softeningLength)),
                   mass, cfg)

\* the inner loops of CalculateForcesOptimized and CalculateForcesSpatiallyOptimized:
\* G * m_j * (p_j - p_i) / (d^2 + eps^2)^1.5, skipped when the power is <= 1e-10
RECURSIVE PowerLawTotalForce(_, _, _, _)
PowerLawTotalForce(bs, i, j, cfg) ==
    IF j > Len(bs) THEN VZero
    ELSE IF j = i THEN PowerLawTotalForce(bs, i, j + 1, cfg)
    ELSE VAdd(PowerLawTerm(VSub(bs[j].pos, bs[i].pos), bs[j].mass, cfg),
              PowerLawTotalForce(bs, i, j + 1, cfg))

\* PhysicsEngine::CalculateForcesOptimized (the blocks partition the receivers)
CalculateForcesOptimized(bs, cfg) ==
    [i \in 1..Len(bs) |->
        IF bs[i].fixed THEN ClearForce(bs[i])
        ELSE ApplyForce(ClearForce(bs[i]), PowerLawTotalForce(bs, i, 1, cfg))]

\* PhysicsEngine::CalculateForcesSpatiallyOptimized (the Morton order only permutes
\* the receivers and the order of the terms of each sum)
CalculateForcesSpatiallyOptimized(bs, cfg) ==
    [i \in 1..Len(bs) |->
        IF bs[i].fixed THEN ClearForce(bs[i])
        ELSE ApplyForce(ClearForce(bs[i]), PowerLawTotalForce(bs, i, 1, cfg))]

\* the thresholds of PhysicsEngine::CalculateForces
SpatialThreshold == 100
BlockThreshold == 50

SelectMethod_mut(cfg, gpuAvailable, n) ==
    IF cfg.useGPU /\ gpuAvailable THEN "GPU"
    ELSE IF cfg.useBarnesHut /\ n > cfg.maxBodiesForDirect THEN "Barnes-Hut"
    ELSE IF n > BlockThreshold THEN "Block-Optimized"
    ELSE IF n > SpatialThreshold THEN "Spatial-Optimized"
    ELSE "Direct"

\* PhysicsEngine::CalculateForces, the choice of the method
SelectMethod(cfg, gpuAvailable, n) ==
    IF cfg.useGPU /\ gpuAvailable THEN "GPU"
    ELSE IF cfg.useBarnesHut /\ n > cfg.maxBodiesForDirect THEN "Barnes-Hut"
    ELSE IF n > SpatialThreshold THEN "Spatial-Optimized"
    ELSE IF n > BlockThreshold THEN "Block-Optimized"
    ELSE "Direct"

\* the kernels a method runs, in call order (CalculateForcesGPU calls CalculateForcesDirect)
KernelsOf(method) ==
    IF method = "GPU" THEN <<"CalculateForcesGPU", "CalculateForcesDirect">>
    ELSE IF method = "Barnes-Hut" THEN <<"CalculateForcesBarnesHut">>
    ELSE IF method = "Spatial-Optimized" THEN <<"CalculateForcesSpatiallyOptimized">>
    ELSE IF method = "Block-Optimized" THEN <<"CalculateForcesOptimized">>
    ELSE <<"CalculateForcesDirect">>

\* CalculateForces: the Barnes-Hut branch, the tree built
BarnesHutPass(cleared, cfg, built) ==
    [bodies |-> BarnesHutForces(cleared, cfg, built), tree |-> built,
     method |-> "Barnes-Hut", kernels |-> KernelsOf("Barnes-Hut")]

\* CalculateForces: the branch taken for `method`, the forces cleared
ForcesBy(method, cleared, cfg, tree) ==
    IF method = "Barnes-Hut" THEN BarnesHutPass(cleared, cfg, BuildTree(cleared))
    ELSE [bodies |-> IF method = "Spatial-Optimized"
                     THEN CalculateForcesSpatiallyOptimized(cleared, cfg)
                     ELSE IF method = "Block-Optimized"
                     THEN CalculateForcesOptimized(cleared, cfg)
                     ELSE CalculateForcesDirect(cleared, cfg),
          tree |-> tree, method |-> method, kernels |-> KernelsOf(method)]

\* PhysicsEngine::CalculateForces: the bodies, the tree and the stats it leaves
CalculateForces(bs, cfg, gpuAvailable, tree) ==
    ForcesBy(SelectMethod(cfg, gpuAvailable, Len(bs)), ClearForces(bs), cfg, tree)

\* Body::IsColliding / PhysicsEngine::CheckCollision
CheckCollision(a, b) ==
    RLeq(VLength(VSub(a.pos, b.pos)), RAdd(a.radius, b.radius))

\* ResolveCollision and IntegrateLeapfrog: a body that is neither fixed nor dragged
Movable(body) == ~body.fixed /\ ~body.dragged

\* ResolveCollision: the velocities after the impulse along `normal`
ApplyImpulse_mut(a, b, a1, b1, impulseVector) ==
    [a |-> IF Movable(a) THEN [a1 EXCEPT !.vel = VSub(a.vel, VDivide(impulseVector, a.mass))]
           ELSE a1,
     b |-> IF Movable(b) THEN [b1 EXCEPT !.vel = VSub(b.vel, VDivide(impulseVector, b.mass))]
           ELSE b1]

ApplyImpulse(a, b, a1, b1, impulseVector) ==
    [a |-> IF Movable(a)
           THEN [a1 EXCEPT !.vel = VSub(a.vel, VDivide(impulseVector, a.mass))]
           ELSE a1,
     b |-> IF Movable(b)
           THEN [b1 EXCEPT !.vel = VAdd(b.vel, VDivide(impulseVector, b.mass))]
           ELSE b1]

\* ResolveCollision: the bounce of the separated bodies a1, b1
Bounce(a, b, a1, b1, normal, velocityAlongNormal, cfg) ==
    LET impulse == RDiv(RMul(RNeg(RAdd(ROne, cfg.restitution)), velocityAlongNormal),
                        RAdd(RDiv(ROne, a.mass), RDiv(ROne, b.mass)))
    IN  IF IsPositive(velocityAlongNormal) THEN [a |-> a1, b |-> b1]
        ELSE ApplyImpulse(a, b, a1, b1, VScale(normal, impulse))

\* ResolveCollision: velocityAlongNormal = dot(relativeVelocity, normal)
BounceAlong(a, b, a1, b1, normal, cfg) ==
    Bounce(a, b, a1, b1, normal, VDot(VSub(b.vel, a.vel), normal), cfg)

\* ResolveCollision: the overlapping bodies pushed apart by `separation` each
Separate(a, b, delta, distance, separation, cfg) ==
    BounceAlong(a, b,
                IF Movable(a) THEN [a EXCEPT !.pos = VSub(a.pos, separation)] ELSE a,
                IF Movable(b) THEN [b EXCEPT !.pos = VAdd(b.pos, separation)] ELSE b,
                VDivide(delta, distance), cfg)

\* ResolveCollision from delta, distance and minDistance on
ResolveAt(a, b, delta, distance, minDistance, cfg) ==
    IF RLess(distance, minDistance) /\ IsPositive(distance)
    THEN Separate(a, b, delta, distance,
                  VScale(VScale(delta, RDiv(RSub(minDistance, distance), distance)),
                         Frac(1, 2)),
                  cfg)
    ELSE [a |-> a, b |-> b]

\* ResolveCollision: distance = length(delta), minDistance = the radii summed
ResolveAlong(a, b, delta, cfg) ==
    ResolveAt(a, b, delta, VLength(delta), RAdd(a.radius, b.radius), cfg)

\* PhysicsEngine::ResolveCollision on the pair (a, b)
ResolveCollision(a, b, cfg) == ResolveAlong(a, b, VSub(b.pos, a.pos), cfg)

\* HandleCollisions: the list after ResolveCollision returned `r` for the pair (i, j)
PutPair(bs, i, j, r) == [bs EXCEPT ![i] = r.a, ![j] = r.b]

\* PhysicsEngine::HandleCollisions, the pair loop from (i, j) on
RECURSIVE CollidePairs(_, _, _, _)
CollidePairs(bs, i, j, cfg) ==
    IF i > Len(bs) THEN bs
    ELSE IF j > Len(bs) THEN CollidePairs(bs, i + 1, i + 2, cfg)
    ELSE IF CheckCollision(bs[i], bs[j])
    THEN CollidePairs(PutPair(bs, i, j, ResolveCollision(bs[i], bs[j], cfg)), i, j + 1, cfg)
    ELSE CollidePairs(bs, i, j + 1, cfg)

\* PhysicsEngine::HandleCollisions
HandleCollisions(bs, cfg) == CollidePairs(bs, 1, 2, cfg)

\* IntegrateLeapfrog: const float maxVelocity = 500.0f
MaxVelocity == 500

IntegrateSkips_mut(body) == body.dragged

\* IntegrateLeapfrog: the bodies the loop skips
IntegrateSkips(body) == body.fixed \/ body.dragged

\* IntegrateLeapfrog: the position and the clamped velocity written to the body
WriteMotion(body, position, velocity, velMagnitude) ==
    [body EXCEPT !.pos = position,
                 !.vel = IF RLess(Num(MaxVelocity), velMagnitude)
                         THEN VScale(VDivide(velocity, velMagnitude), Num(MaxVelocity))
                         ELSE velocity]

\* IntegrateLeapfrog: velMagnitude = glm::length(velocity)
WriteClamped(body, position, velocity) ==
    WriteMotion(body, position, velocity, VLength(velocity))

\* IntegrateLeapfrog: drift with the half-step velocity, then the second half kick
DriftAndKick(body, halfVelocity, kick, deltaTime) ==
    WriteClamped(body, VAdd(body.pos, VScale(halfVelocity, deltaTime)),
                 VAdd(halfVelocity, kick))

\* IntegrateLeapfrog: the damped velocity plus the first half kick
KickBy(body, kick, deltaTime, cfg) ==
    DriftAndKick(body, VAdd(VScale(body.vel, cfg.dampingFactor), kick), kick, deltaTime)

\* PhysicsEngine::IntegrateLeapfrog, the body of the loop
LeapfrogBody(body, deltaTime, cfg) ==
    LET dtDividedBy2 == RMul(deltaTime, Frac(1, 2))
        acceleration == VDivide(body.force, body.mass)
    IN  KickBy(body, VScale(acceleration, dtDividedBy2), deltaTime, cfg)

\* PhysicsEngine::IntegrateLeapfrog (called by IntegrateMotion)
IntegrateLeapfrog(bs, deltaTime, cfg) ==
    [i \in 1..Len(bs) |->
        IF IntegrateSkips(bs[i]) THEN bs[i] ELSE LeapfrogBody(bs[i], deltaTime, cfg)]

\* CalculateAdaptiveTimeStep, the maximum of |acceleration| over bodies[i..]
RECURSIVE MaxAcceleration(_, _)
MaxAcceleration(bs, i) ==
    IF i > Len(bs) THEN RZero
    ELSE RMax(VLength(bs[i].acc), MaxAcceleration(bs, i + 1))

\* CalculateAdaptiveTimeStep: the step for the largest acceleration found
StepFor(maxAcceleration, cfg) ==
    IF IsPositive(maxAcceleration)
    THEN RMax(cfg.minTimeStep,
              RMin(cfg.maxTimeStep, RSqrt(RDiv(cfg.softeningLength, maxAcceleration))))
    ELSE cfg.timeStep

\* PhysicsEngine::CalculateAdaptiveTimeStep
CalculateAdaptiveTimeStep(bs, cfg) == StepFor(MaxAcceleration(bs, 1), cfg)

\* PhysicsEngine::Update, the step size handed to IntegrateMotion
ActualDeltaTime(bs, deltaTime, cfg) ==
    IF cfg.adaptiveTimeStep
    THEN RMul(CalculateAdaptiveTimeStep(bs, cfg), cfg.timeScale)
    ELSE RMul(deltaTime, cfg.timeScale)

PhaseAfter_mut(phase, cfg) ==
    IF phase = "begin" THEN (IF cfg.enableCollisions THEN "collisions" ELSE "forces")
    ELSE IF phase = "collisions" THEN "forces"
    ELSE IF phase = "forces" THEN "integrate"
    ELSE "idle"

\* PhysicsEngine::Update, the statement that follows each phase of a step
PhaseAfter(phase, cfg) ==
    IF phase = "begin" THEN "forces"
    ELSE IF phase = "forces" THEN (IF cfg.enableCollisions THEN "collisions" ELSE "integrate")
    ELSE IF phase = "collisions" THEN "integrate"
    ELSE "idle"

\* HandleCollisions: m_stats.collisions, the colliding pairs met from (i, j) on
RECURSIVE CountCollisions(_, _, _, _)
CountCollisions(bs, i, j, cfg) ==
    IF i > Len(bs) THEN 0
    ELSE IF j > Len(bs) THEN CountCollisions(bs, i + 1, i + 2, cfg)
    ELSE IF CheckCollision(bs[i], bs[j])
    THEN 1 + CountCollisions(PutPair(bs, i, j, ResolveCollision(bs[i], bs[j], cfg)),
                             i, j + 1, cfg)
    ELSE CountCollisions(bs, i, j + 1, cfg)

(***************************************************************************)
(* PhysicsEngine::Update as a state machine, one action per phase.          *)
(***************************************************************************)
\* PhysicsStats as constructed; `kernels` is the history of the last force call
NoStats == [method |-> "Direct", kernels |-> <<>>, collisions |-> 0, bodyCount |-> 0]

\* PhysicsConfig with the fields the scenes vary
ConfigOf(useGPU, useBarnesHut, enableCollisions, softeningLength, theta) ==
    [gravitationalConstant |-> Num(1), timeStep |-> Frac(16, 1000), timeScale |-> Num(1),
     softeningLength |-> softeningLength, dampingFactor |-> Num(1),
     useBarnesHut |-> useBarnesHut, barnesHutTheta |-> theta,
     enableCollisions |-> enableCollisions, restitution |-> Frac(8, 10),
     adaptiveTimeStep |-> FALSE, maxTimeStep |-> Frac(33, 1000), minTimeStep |-> Frac(1, 1000),
     useGPU |-> useGPU, maxBodiesForDirect |-> 1]

PhysConfigs ==
    {ConfigOf(g, b, c, Num(1), Frac(1, 2)) : g \in BOOLEAN, b \in BOOLEAN, c \in BOOLEAN}

\* a body on the x axis
AxisBody(id, x, vx, mass, fixed) ==
    NewBody(id, Vec(Num(x), RZero), Vec(Num(vx), RZero), Num(mass), Num(1), fixed)

\* the scenes: no body, or two bodies on the x axis that overlap (3 apart, radii 2)
\* or not (8 apart)
PhysScenes ==
    {<<>>} \cup
    {<<AxisBody(1, 0, v1, m1, f1), AxisBody(2, x2, v2, 1, f2)>> :
        v1 \in {0, 1}, m1 \in {1, 2}, f1 \in BOOLEAN,
        x2 \in {3, 8}, v2 \in {0, 0 - 1}, f2 \in BOOLEAN}

StepSizes == {Num(1)}

\* PhysicsEngine::PhysicsEngine and Initialize
EngineInit ==
    /\ m_gpuAvailable \in BOOLEAN
    /\ m_barnesHutTree = NullTree
    /\ stats = NoStats
    /\ pc = "idle"
    /\ actualDt = RZero
    /\ phaseLog = <<>>
    /\ stepsDone = 0
    /\ callN = 0 - 1

PhysInit ==
    /\ bodies \in PhysScenes
    /\ initial = bodies
    /\ config \in PhysConfigs
    /\ EngineInit

\* PhysicsEngine::Update on an empty list: return at once
UpdateEmpty ==
    /\ pc = "idle"
    /\ stepsDone < MaxSteps
    /\ Len(bodies) = 0
    /\ stepsDone' = stepsDone + 1
    /\ phaseLog' = <<>>
    /\ UNCHANGED <<bodies, config, m_gpuAvailable, m_barnesHutTree, stats, pc, actualDt, callN,
                   initial>>

\* PhysicsEngine::Update, entry: the step size is fixed before the force pass
UpdateBegin(deltaTime) ==
    /\ pc = "idle"
    /\ stepsDone < MaxSteps
    /\ Len(bodies) > 0
    /\ actualDt' = ActualDeltaTime(bodies, deltaTime, config)
    /\ pc' = PhaseAfter("begin", config)
    /\ phaseLog' = <<>>
    /\ stepsDone' = stepsDone + 1
    /\ UNCHANGED <<bodies, config, m_gpuAvailable, m_barnesHutTree, stats, callN, initial>>

\* what CalculateForces leaves in the engine and in the bodies
StoreForces(r) ==
    /\ bodies' = r.bodies
    /\ m_barnesHutTree' = r.tree
    /\ stats' = [stats EXCEPT !.method = r.method, !.kernels = r.kernels]

\* PhysicsEngine::Update, CalculateForces(bodies)
UpdateForces ==
    /\ pc = "forces"
    /\ StoreForces(CalculateForces(bodies, config, m_gpuAvailable, m_barnesHutTree))
    /\ pc' = PhaseAfter("forces", config)
    /\ phaseLog' = Append(phaseLog, "forces")
    /\ callN' = Len(bodies)
    /\ UNCHANGED <<config, m_gpuAvailable, actualDt, stepsDone, initial>>

\* PhysicsEngine::Update, HandleCollisions(bodies)
UpdateCollisions ==
    /\ pc = "collisions"
    /\ bodies' = HandleCollisions(bodies, config)
    /\ stats' = [stats EXCEPT !.collisions = CountCollisions(bodies, 1, 2, config)]
    /\ pc' = PhaseAfter("collisions", config)
    /\ phaseLog' = Append(phaseLog, "collisions")
    /\ UNCHANGED <<config, m_gpuAvailable, m_barnesHutTree, actualDt, stepsDone, callN, initial>>

\* PhysicsEngine::Update, IntegrateMotion(bodies, actualDeltaTime) and the stats
UpdateIntegrate ==
    /\ pc = "integrate"
    /\ bodies' = IntegrateLeapfrog(bodies, actualDt, config)
    /\ stats' = [stats EXCEPT !.bodyCount = Len(bodies)]
    /\ pc' = PhaseAfter("integrate", config)
    /\ phaseLog' = Append(phaseLog, "integrate")
    /\ UNCHANGED <<config, m_gpuAvailable, m_barnesHutTree, actualDt, stepsDone, callN, initial>>

\* the trail and the application are not involved in an engine step
EngineAlone == UNCHANGED <<trailVars, appVars, treeVars, eventVars, sampleVars, raceVars>>

PhysNext ==
    \/ UpdateEmpty /\ EngineAlone
    \/ \E deltaTime \in StepSizes : UpdateBegin(deltaTime) /\ EngineAlone
    \/ UpdateForces /\ EngineAlone
    \/ UpdateCollisions /\ EngineAlone
    \/ UpdateIntegrate /\ EngineAlone

\* the trail of a body that is not under test stays as constructed
TrailQuiet ==
    /\ m_capacity = 1
    /\ m_points = FreshBuffer(1)
    /\ m_head = 0
    /\ m_size = 0
    /\ trailOk = TRUE
    /\ chron = <<>>
    /\ adds = <<>>
    /\ pure = TRUE
    /\ lastOp = [op |-> "Init", arg |-> 0, result |-> NoPoint, pre |-> <<>>, preCap |-> 1]

\* an engine with no body that is never stepped
PhysQuiet ==
    /\ bodies = <<>>
    /\ initial = <<>>
    /\ config = ConfigOf(FALSE, TRUE, TRUE, Num(1), Frac(1, 2))
    /\ m_gpuAvailable = FALSE
    /\ m_barnesHutTree = NullTree
    /\ stats = NoStats
    /\ pc = "idle"
    /\ actualDt = RZero
    /\ phaseLog = <<>>
    /\ stepsDone = 0
    /\ callN = 0 - 1

\* an application that receives no event
AppQuiet ==
    /\ m_selectedBody = NoBody
    /\ m_draggedBody = NoBody
    /\ m_worldMousePosition = VZero
    /\ leftButtonDown = FALSE
    /\ deleteKeyPressed = FALSE
    /\ m_running = FALSE
    /\ m_paused = FALSE
    /\ removedHeld = FALSE

\* no tree is being built apart from the one the engine keeps
NoBuild == [pc |-> "idle", next |-> 0, stack |-> <<>>, nodes |-> <<>>]

TreeQuiet == build = NoBuild /\ buildSteps = 0

\* no event has been handled
NoEvent == [kind |-> "none", frames |-> 0]

EventQuiet == lastEvent = NoEvent

\* no trail sampling is under test
SampleQuiet == frameCounter = 0 /\ bodyTrails = <<>> /\ subSteps = 0

\* no parallel force pass is under test
RaceQuiet ==
    /\ passPc = "idle"
    /\ forceCalculations = 0
    /\ workers = <<>>
    /\ computed = 0
    /\ statsCalculations = 0

TrailStart == TrailInit /\ PhysQuiet /\ AppQuiet /\ TreeQuiet /\ EventQuiet /\ SampleQuiet /\ RaceQuiet
SpecTrail == TrailStart /\ [][TrailNext]_vars

PhysStart == PhysInit /\ TrailQuiet /\ AppQuiet /\ TreeQuiet /\ EventQuiet /\ SampleQuiet /\ RaceQuiet
SpecPhys == PhysStart /\ [][PhysNext]_vars

(***************************************************************************)
(* PhysicsEngine::CalculateForces called on its own, as the consistency     *)
(* test in Application.h does after SetConfig.                              *)
(***************************************************************************)
\* a body off the x axis, 4 above the origin (3-4-5 triangle with a body at x = 3)
OffAxisBody(id, mass) ==
    NewBody(id, Vec(RZero, Num(4)), VZero, Num(mass), Num(1), FALSE)

TwoBodyScenes ==
    {<<AxisBody(1, 0, 0, mA, FALSE), AxisBody(2, d, 0, mB, fB)>> :
        mA \in {1, 2}, d \in {1, 3}, mB \in {1, 2}, fB \in BOOLEAN}

ForceScenes ==
    TwoBodyScenes \cup {Append(sc, OffAxisBody(3, 1)) : sc \in TwoBodyScenes}

ForceConfigs ==
    {ConfigOf(FALSE, b, TRUE, eps, theta) :
        b \in BOOLEAN, eps \in {Frac(1, 100), Num(1)}, theta \in {RZero, Frac(1, 2)}}

ForceInit ==
    /\ bodies \in ForceScenes
    /\ initial = bodies
    /\ EngineInit
    /\ config \in ForceConfigs

\* PhysicsEngine::CalculateForces
ForcePass ==
    /\ StoreForces(CalculateForces(bodies, config, m_gpuAvailable, m_barnesHutTree))
    /\ callN' = Len(bodies)
    /\ UNCHANGED <<config, m_gpuAvailable, pc, actualDt, phaseLog, stepsDone, initial>>

\* PhysicsEngine::SetConfig, switching the tree method on or off
SetConfig(useBarnesHut) ==
    /\ config' = [config EXCEPT !.useBarnesHut = useBarnesHut]
    /\ UNCHANGED <<bodies, m_gpuAvailable, m_barnesHutTree, stats, pc, actualDt, phaseLog,
                   stepsDone, callN, initial>>

ForceNext ==
    \/ ForcePass /\ EngineAlone
    \/ \E useBarnesHut \in BOOLEAN : SetConfig(useBarnesHut) /\ EngineAlone

ForceStart == ForceInit /\ TrailQuiet /\ AppQuiet /\ TreeQuiet /\ EventQuiet /\ SampleQuiet /\ RaceQuiet
SpecForce == ForceStart /\ [][ForceNext]_vars

(***************************************************************************)
(* The method choice of CalculateForces over list sizes around its          *)
(* thresholds; the list is represented by its size alone.                   *)
(***************************************************************************)
BodyCounts == {0, 1, 50, 51, 100, 101, 1000, 1001}
DirectLimits == {0, 75, 1000}

SelectConfigs ==
    {[ConfigOf(g, b, TRUE, Num(1), Frac(1, 2)) EXCEPT !.maxBodiesForDirect = m] :
        g \in BOOLEAN, b \in BOOLEAN, m \in DirectLimits}

SelectInit ==
    /\ bodies = <<>>
    /\ initial = <<>>
    /\ EngineInit
    /\ config \in SelectConfigs

\* PhysicsEngine::CalculateForces on a list of n bodies: the method it records
CalculateForcesOfSize(n) ==
    /\ stats' = [stats EXCEPT !.method = SelectMethod(config, m_gpuAvailable, n),
                              !.kernels = KernelsOf(SelectMethod(config, m_gpuAvailable, n))]
    /\ callN' = n
    /\ UNCHANGED <<bodies, config, m_gpuAvailable, m_barnesHutTree, pc, actualDt, phaseLog,
                   stepsDone, initial>>

SelectNext == \E n \in BodyCounts : CalculateForcesOfSize(n) /\ EngineAlone

SelectStart == SelectInit /\ TrailQuiet /\ AppQuiet /\ TreeQuiet /\ EventQuiet /\ SampleQuiet /\ RaceQuiet
SpecSelect == SelectStart /\ [][SelectNext]_vars

(***************************************************************************)
(* Application: the body store, the cached handles and the input handlers.  *)
(* A Body* is the id of the body it points to; a freed address is handed    *)
(* out again by the next allocation.                                        *)
(***************************************************************************)
\* the places the mouse is at: where the first body of a preset is, and where
\* its second body is
MousePlaces == {Vec(Num(0), RZero), Vec(Num(10), RZero)}

\* the engine configuration of the application: the tree method above 1000 bodies
AppConfig ==
    [ConfigOf(FALSE, TRUE, TRUE, Num(1), Frac(1, 2)) EXCEPT !.maxBodiesForDirect = 1000]

\* Application::Run: m_deltaTime = min(measured, 0.033f)
FrameTimes == {Frac(33, 1000)}

\* the Application state the handlers share: store and handles
AppState(bs, selected, dragged) == [bodies |-> bs, selected |-> selected, dragged |-> dragged]

InStore(bs, body) == \E i \in 1..Len(bs) : bs[i].id = body

\* std::make_unique<Body>: an address no live body has
FreshAddress(bs) == CHOOSE a \in 1..(Len(bs) + 1) : ~InStore(bs, a)

\* std::vector::erase of the element holding `body`
EraseBody(bs, body) == SelectSeq(bs, LAMBDA b : b.id # body)

\* Application::AddBody(position, velocity, mass)
AddBody(bs, position, velocity, mass) ==
    Append(bs, NewBody(FreshAddress(bs), position, velocity, mass, Frac(1, 10), FALSE))

RemoveBody_mut(st, body) ==
    IF InStore(st.bodies, body)
    THEN AppState(EraseBody(st.bodies, body),
                  IF st.selected = body THEN NoBody ELSE st.selected,
                  st.dragged)
    ELSE st

\* Application::RemoveBody
RemoveBody(st, body) ==
    IF InStore(st.bodies, body)
    THEN AppState(EraseBody(st.bodies, body),
                  IF st.selected = body THEN NoBody ELSE st.selected,
                  IF st.dragged = body THEN NoBody ELSE st.dragged)
    ELSE st

\* Application::ClearBodies
ClearBodies(st) == AppState(<<>>, NoBody, NoBody)

\* Application::FindBodyAtPosition, the scan from index i on
RECURSIVE FindBodyFrom(_, _, _)
FindBodyFrom(bs, position, i) ==
    IF i > Len(bs) THEN NoBody
    ELSE IF RLeq(VLength(VSub(bs[i].pos, position)), RMul(bs[i].radius, Num(2)))
    THEN bs[i].id
    ELSE FindBodyFrom(bs, position, i + 1)

FindBodyAtPosition(bs, position) == FindBodyFrom(bs, position, 1)

\* body->SetSelected(flag) through a Body*
SetSelected(bs, body, flag) ==
    [i \in 1..Len(bs) |-> IF bs[i].id = body THEN [bs[i] EXCEPT !.selected = flag] ELSE bs[i]]

\* body->SetBeingDragged(flag) through a Body*
SetBeingDragged(bs, body, flag) ==
    [i \in 1..Len(bs) |-> IF bs[i].id = body THEN [bs[i] EXCEPT !.dragged = flag] ELSE bs[i]]

\* Application::UpdateUI, the drag block: position to the mouse, velocity zero, flag set
DragBody(bs, body, position) ==
    [i \in 1..Len(bs) |->
        IF bs[i].id = body
        THEN [bs[i] EXCEPT !.pos = position, !.vel = VZero, !.dragged = TRUE]
        ELSE bs[i]]

\* Application::HandleInput, the Delete key poll
HandleInput(st, deleteKeyDown, wasPressed) ==
    IF deleteKeyDown /\ ~wasPressed /\ st.selected # NoBody
    THEN AppState(RemoveBody(st, st.selected).bodies, NoBody, NoBody)
    ELSE st

\* PhysicsEngine::Update after the force pass returned `forces`
StepWith(dt, forces, cfg) ==
    [bodies |-> IntegrateLeapfrog(IF cfg.enableCollisions
                                  THEN HandleCollisions(forces.bodies, cfg)
                                  ELSE forces.bodies,
                                  dt, cfg),
     tree |-> forces.tree, method |-> forces.method, kernels |-> forces.kernels,
     actualDt |-> dt, collisions |-> CountCollisions(forces.bodies, 1, 2, cfg)]

\* PhysicsEngine::Update as one call: forces, collisions, integration
EngineUpdate(bs, deltaTime, cfg, gpuAvailable, tree) ==
    StepWith(ActualDeltaTime(bs, deltaTime, cfg), CalculateForces(bs, cfg, gpuAvailable, tree),
             cfg)

AppInit ==
    /\ bodies = <<>>
    /\ initial = <<>>
    /\ config = AppConfig
    /\ m_gpuAvailable = FALSE
    /\ m_barnesHutTree = NullTree
    /\ stats = NoStats
    /\ pc = "idle"
    /\ actualDt = RZero
    /\ phaseLog = <<>>
    /\ stepsDone = 0
    /\ callN = 0 - 1
    /\ AppQuiet

\* the step-level history is kept by the step-level specification only
EngineIdle == UNCHANGED <<config, m_gpuAvailable, pc, phaseLog, stepsDone, callN, initial>>

\* history: whether a handle of the current state refers to no body of the next
LosesHeld(st) ==
    \/ m_selectedBody # NoBody /\ ~InStore(st.bodies, m_selectedBody)
    \/ m_draggedBody # NoBody /\ ~InStore(st.bodies, m_draggedBody)

\* Application::UpdateUI and the frame's bookkeeping, the store being `stepped`
FinishFrame(st, stepped, deleteKeyDown, mouse) ==
    /\ bodies' = IF st.dragged # NoBody /\ leftButtonDown
                 THEN DragBody(stepped, st.dragged, mouse)
                 ELSE stepped
    /\ m_selectedBody' = st.selected
    /\ m_draggedBody' = st.dragged
    /\ deleteKeyPressed' = deleteKeyDown
    /\ m_worldMousePosition' = mouse
    /\ removedHeld' = (removedHeld \/ LosesHeld(st))
    /\ EngineIdle
    /\ UNCHANGED <<leftButtonDown, m_running, m_paused>>

\* Application::UpdatePhysics: the results `r` of PhysicsEngine::Update stored
StorePhysics(st, r, deleteKeyDown, mouse) ==
    /\ m_barnesHutTree' = r.tree
    /\ stats' = [method |-> r.method, kernels |-> r.kernels,
                 collisions |-> r.collisions, bodyCount |-> Len(st.bodies)]
    /\ actualDt' = r.actualDt
    /\ FinishFrame(st, r.bodies, deleteKeyDown, mouse)

\* Application::Update after HandleInput left the store and handles `st`
FrameFrom_mut(st, deltaTime, deleteKeyDown, mouse) ==
    IF m_running /\ Len(st.bodies) > 0
    THEN StorePhysics(st,
                      EngineUpdate(st.bodies, deltaTime, config, m_gpuAvailable,
                                   m_barnesHutTree),
                      deleteKeyDown, mouse)
    ELSE /\ UNCHANGED <<m_barnesHutTree, stats, actualDt>>
         /\ FinishFrame(st, st.bodies, deleteKeyDown, mouse)

FrameFrom(st, deltaTime, deleteKeyDown, mouse) ==
    IF m_running /\ ~m_paused /\ Len(st.bodies) > 0
    THEN StorePhysics(st,
                      EngineUpdate(st.bodies, deltaTime, config, m_gpuAvailable,
                                   m_barnesHutTree),
                      deleteKeyDown, mouse)
    ELSE /\ UNCHANGED <<m_barnesHutTree, stats, actualDt>>
         /\ FinishFrame(st, st.bodies, deleteKeyDown, mouse)

\* Application::Update: HandleInput, UpdatePhysics when running and not paused,
\* UpdateUI with the mouse at `mouse`
AppUpdate(deltaTime, deleteKeyDown, mouse) ==
    FrameFrom(HandleInput(AppState(bodies, m_selectedBody, m_draggedBody),
                          deleteKeyDown, deleteKeyPressed),
              deltaTime, deleteKeyDown, mouse)

EngineUntouched ==
    UNCHANGED <<config, m_gpuAvailable, m_barnesHutTree, stats, pc, actualDt, phaseLog,
                stepsDone, callN, initial>>

\* the left press off the UI on empty space: a body added, the selection dropped
LeftPressAdds(added) ==
    /\ bodies' = IF m_selectedBody # NoBody
                 THEN SetSelected(added, m_selectedBody, FALSE)
                 ELSE added
    /\ m_selectedBody' = NoBody
    /\ UNCHANGED m_draggedBody

\* the left press, FindBodyAtPosition having returned `clickedBody`
LeftPressOn(overUI, clickedBody) ==
    /\ ~leftButtonDown
    /\ leftButtonDown' = TRUE
    /\ (~overUI /\ clickedBody = NoBody) => Len(bodies) < MaxStore
    /\ IF overUI
       THEN UNCHANGED <<bodies, m_selectedBody, m_draggedBody>>
       ELSE IF clickedBody # NoBody
       THEN /\ m_selectedBody' = clickedBody
            /\ m_draggedBody' = clickedBody
            /\ bodies' = SetSelected(bodies, clickedBody, TRUE)
       ELSE LeftPressAdds(AddBody(bodies, m_worldMousePosition, VZero, Num(1)))
    /\ EngineUntouched
    /\ UNCHANGED <<m_worldMousePosition, deleteKeyPressed, m_running, m_paused, removedHeld>>

\* Application::OnMouseButton(GLFW_MOUSE_BUTTON_LEFT, GLFW_PRESS)
OnMouseButtonLeftPress(overUI) ==
    LeftPressOn(overUI, FindBodyAtPosition(bodies, m_worldMousePosition))

\* Application::OnMouseButton(GLFW_MOUSE_BUTTON_LEFT, GLFW_RELEASE)
OnMouseButtonLeftRelease(overUI) ==
    /\ leftButtonDown
    /\ leftButtonDown' = FALSE
    /\ IF ~overUI /\ m_draggedBody # NoBody
       THEN /\ bodies' = SetBeingDragged(bodies, m_draggedBody, FALSE)
            /\ m_draggedBody' = NoBody
       ELSE UNCHANGED <<bodies, m_draggedBody>>
    /\ EngineUntouched
    /\ UNCHANGED <<m_selectedBody, m_worldMousePosition, deleteKeyPressed, m_running, m_paused,
                   removedHeld>>

\* the right press: the store and handles `st` that RemoveBody leaves
RightPressLeaves(st) ==
    /\ bodies' = st.bodies
    /\ m_selectedBody' = st.selected
    /\ m_draggedBody' = st.dragged
    /\ removedHeld' = (removedHeld \/ LosesHeld(st))
    /\ EngineUntouched
    /\ UNCHANGED <<m_worldMousePosition, leftButtonDown, deleteKeyPressed, m_running,
                   m_paused>>

\* the right press, FindBodyAtPosition having returned `clickedBody`
RightPressOn(clickedBody) ==
    /\ clickedBody # NoBody
    /\ RightPressLeaves(RemoveBody(AppState(bodies, m_selectedBody, m_draggedBody),
                                   clickedBody))

\* Application::OnMouseButton(GLFW_MOUSE_BUTTON_RIGHT, GLFW_PRESS) off the UI
OnMouseButtonRightPress == RightPressOn(FindBodyAtPosition(bodies, m_worldMousePosition))

Keys == {"SPACE", "R", "C", "DELETE"}

\* Application::OnKeyboard(key, GLFW_PRESS)
OnKeyboard(key) ==
    LET st == AppState(bodies, m_selectedBody, m_draggedBody)
        after == IF key = "C" THEN ClearBodies(st)
                 ELSE IF key = "DELETE" /\ m_selectedBody # NoBody
                 THEN RemoveBody(st, m_selectedBody)
                 ELSE st
    IN  /\ bodies' = after.bodies
        /\ m_selectedBody' = after.selected
        /\ m_draggedBody' = after.dragged
        /\ removedHeld' = (removedHeld \/ LosesHeld(after))
        /\ m_running' = IF key = "SPACE" THEN TRUE ELSE IF key = "R" THEN FALSE ELSE m_running
        /\ m_paused' = IF key = "SPACE" THEN (m_running /\ ~m_paused)
                       ELSE IF key = "R" THEN FALSE ELSE m_paused
        /\ EngineUntouched
        /\ UNCHANGED <<m_worldMousePosition, leftButtonDown, deleteKeyPressed>>

\* the AddBody calls of a preset of `count` bodies, 10 apart on the x axis
RECURSIVE CreatePreset(_, _)
CreatePreset(bs, count) ==
    IF count = 0 THEN bs
    ELSE AddBody(CreatePreset(bs, count - 1), Vec(Num(10 * (count - 1)), RZero), VZero, Num(1))

\* Application::LoadPreset: ClearBodies, then the preset's bodies
LoadPreset(count) ==
    LET st == ClearBodies(AppState(bodies, m_selectedBody, m_draggedBody))
    IN  /\ bodies' = CreatePreset(st.bodies, count)
        /\ m_selectedBody' = st.selected
        /\ m_draggedBody' = st.dragged
        /\ removedHeld' = (removedHeld \/ LosesHeld(st))
        /\ EngineUntouched
        /\ UNCHANGED <<m_worldMousePosition, leftButtonDown, deleteKeyPressed, m_running,
                       m_paused>>

\* the trails are not involved in an application event
TrailIdle == UNCHANGED <<trailVars, treeVars, eventVars, sampleVars, raceVars>>

AppNext ==
    \/ \E deltaTime \in FrameTimes, deleteKeyDown \in BOOLEAN, mouse \in MousePlaces :
          AppUpdate(deltaTime, deleteKeyDown, mouse) /\ TrailIdle
    \/ \E overUI \in BOOLEAN : OnMouseButtonLeftPress(overUI) /\ TrailIdle
    \/ \E overUI \in BOOLEAN : OnMouseButtonLeftRelease(overUI) /\ TrailIdle
    \/ OnMouseButtonRightPress /\ TrailIdle
    \/ \E key \in Keys : OnKeyboard(key) /\ TrailIdle
    \/ \E count \in 0..MaxStore : LoadPreset(count) /\ TrailIdle

AppStart == AppInit /\ TrailQuiet /\ TreeQuiet /\ EventQuiet /\ SampleQuiet /\ RaceQuiet
SpecApp == AppStart /\ [][AppNext]_vars

(***************************************************************************)
(* The body store under creation and the validating setters of Body.        *)
(***************************************************************************)
\* the masses and densities handed to the constructor and the setters: zero, a
\* value below the minimum where the grid has one, the minimum, and a usual value
MassArgs == {Num(0), Frac(1, 20), Frac(1, 10), Num(2)}
DensityArgs == {Num(0), Frac(1, 1000), Frac(1, 10), Num(1)}

\* Application::AddBody(position, velocity, mass, density, color)
AddBodyWithDensity(bs, position, velocity, mass, density) ==
    Append(bs, SetDensity(BodyCtor(FreshAddress(bs), position, velocity, mass), density))

\* the engine does not run while the store is edited
StoreAlone ==
    UNCHANGED <<config, m_gpuAvailable, m_barnesHutTree, stats, pc, actualDt, phaseLog,
                stepsDone, callN, initial, trailVars, appVars, treeVars, eventVars, sampleVars, raceVars>>

\* Application::AddBody(position, velocity, mass)
StoreAdd(mass) ==
    /\ Len(bodies) < MaxMade
    /\ bodies' = AddBody(bodies, VZero, VZero, mass)
    /\ StoreAlone

\* Application::AddBody(position, velocity, mass, density, color)
StoreAddWithDensity(mass, density) ==
    /\ Len(bodies) < MaxMade
    /\ bodies' = AddBodyWithDensity(bodies, VZero, VZero, mass, density)
    /\ StoreAlone

\* body->SetMass(mass) on the i-th body of the store
StoreSetMass(i, mass) ==
    /\ bodies' = [bodies EXCEPT ![i] = SetMass(bodies[i], mass)]
    /\ StoreAlone

\* body->SetDensity(density) on the i-th body of the store
StoreSetDensity(i, density) ==
    /\ bodies' = [bodies EXCEPT ![i] = SetDensity(bodies[i], density)]
    /\ StoreAlone

StoreNext ==
    \/ \E mass \in MassArgs : StoreAdd(mass)
    \/ \E mass \in MassArgs, density \in DensityArgs : StoreAddWithDensity(mass, density)
    \/ \E i \in 1..Len(bodies), mass \in MassArgs : StoreSetMass(i, mass)
    \/ \E i \in 1..Len(bodies), density \in DensityArgs : StoreSetDensity(i, density)

StoreStart == PhysQuiet /\ TrailQuiet /\ AppQuiet /\ TreeQuiet /\ EventQuiet /\ SampleQuiet /\ RaceQuiet
SpecStore == StoreStart /\ [][StoreNext]_vars

(***************************************************************************)
(* Frames and the play/pause controls of the application over a store of    *)
(* moving bodies.                                                           *)
(***************************************************************************)
PauseScenes ==
    {<<AxisBody(1, 0, 1, 1, FALSE)>>,
     <<AxisBody(1, 0, 1, 2, FALSE), AxisBody(2, 8, 0 - 1, 1, FALSE)>>,
     <<AxisBody(1, 0, 0, 1, FALSE), AxisBody(2, 8, 0, 1, FALSE)>>}

PauseInit ==
    /\ bodies \in PauseScenes
    /\ initial = bodies
    /\ config = AppConfig
    /\ m_gpuAvailable = FALSE
    /\ m_barnesHutTree = NullTree
    /\ stats = NoStats
    /\ pc = "idle"
    /\ actualDt = RZero
    /\ phaseLog = <<>>
    /\ stepsDone = 0
    /\ callN = 0 - 1
    /\ lastEvent = NoEvent

\* m_ui->OnPlayPause
OnPlayPause ==
    /\ m_running' = TRUE
    /\ m_paused' = IF m_running THEN ~m_paused ELSE FALSE
    /\ EngineUntouched
    /\ UNCHANGED <<bodies, m_selectedBody, m_draggedBody, m_worldMousePosition,
                   leftButtonDown, deleteKeyPressed, removedHeld>>

\* m_ui->OnReset
OnReset ==
    /\ m_running' = FALSE
    /\ m_paused' = FALSE
    /\ EngineUntouched
    /\ UNCHANGED <<bodies, m_selectedBody, m_draggedBody, m_worldMousePosition,
                   leftButtonDown, deleteKeyPressed, removedHeld>>

\* the event of kind `kind` has been handled
Handled(kind) ==
    /\ lastEvent' = [kind |-> kind,
                     frames |-> lastEvent.frames + (IF kind = "frame" THEN 1 ELSE 0)]
    /\ UNCHANGED <<trailVars, treeVars, sampleVars, raceVars>>

\* a frame of the main loop, no key held and the mouse at rest
PauseFrame(deltaTime) ==
    /\ lastEvent.frames < MaxFrames
    /\ AppUpdate(deltaTime, FALSE, m_worldMousePosition)

PauseNext ==
    \/ \E deltaTime \in FrameTimes : PauseFrame(deltaTime) /\ Handled("frame")
    \/ \E key \in {"SPACE", "R"} : OnKeyboard(key) /\ Handled(key)
    \/ OnPlayPause /\ Handled("OnPlayPause")
    \/ OnReset /\ Handled("OnReset")

PauseStart == PauseInit /\ AppQuiet /\ TrailQuiet /\ TreeQuiet /\ SampleQuiet /\ RaceQuiet
SpecPause == PauseStart /\ [][PauseNext]_vars

(***************************************************************************)
(* PhysicsEngine::HandleCollisions called on its own on a pair of bodies.   *)
(***************************************************************************)
\* a body is free, fixed (IsFixed) or held by the mouse (IsBeingDragged)
Holds == {"free", "fixed", "dragged"}

CollideBody(id, position, vx, mass, hold) ==
    [NewBody(id, position, Vec(Num(vx), RZero), Num(mass), Num(1), hold = "fixed")
        EXCEPT !.dragged = (hold = "dragged")]

\* where the second body lies: overlapping the first on either axis, on the first,
\* and touching it
CollidePlaces ==
    {Vec(Num(1), RZero), Vec(Num(3), RZero), Vec(RZero, Num(2)), Vec(RZero, RZero),
     Vec(Num(4), RZero)}

CollideScenes ==
    {<<CollideBody(1, VZero, va, ma, ha), CollideBody(2, pb, vb, mb, hb)>> :
        va \in {0, 1, 2}, ma \in {1, 2}, ha \in Holds,
        pb \in CollidePlaces, vb \in {0 - 2, 0, 1}, mb \in {1, 2}, hb \in Holds}

Restitutions == {RZero, Frac(1, 2), ROne}

CollideConfigs ==
    {[ConfigOf(FALSE, FALSE, TRUE, Num(1), Frac(1, 2)) EXCEPT !.restitution = e] :
        e \in Restitutions}

CollideInit ==
    /\ bodies \in CollideScenes
    /\ initial = bodies
    /\ config \in CollideConfigs
    /\ m_gpuAvailable = FALSE
    /\ m_barnesHutTree = NullTree
    /\ stats = NoStats
    /\ pc = "idle"
    /\ actualDt = RZero
    /\ phaseLog = <<>>
    /\ stepsDone = 0
    /\ callN = 0 - 1

\* PhysicsEngine::HandleCollisions; `initial` keeps the list as it was before the call
CollideCall ==
    /\ stepsDone < MaxSteps
    /\ initial' = bodies
    /\ bodies' = HandleCollisions(bodies, config)
    /\ stats' = [stats EXCEPT !.collisions = CountCollisions(bodies, 1, 2, config)]
    /\ stepsDone' = stepsDone + 1
    /\ UNCHANGED <<config, m_gpuAvailable, m_barnesHutTree, pc, actualDt, phaseLog, callN>>

CollideNext == CollideCall /\ EngineAlone

CollideStart == CollideInit /\ TrailQuiet /\ AppQuiet /\ TreeQuiet /\ EventQuiet /\ SampleQuiet /\ RaceQuiet
SpecCollide == CollideStart /\ [][CollideNext]_vars

(***************************************************************************)
(* BarnesHutTree::BuildTree, statement by statement: the bounds and the     *)
(* root, one body of the list after the other, each InsertBody one loop     *)
(* iteration at a time, then UpdateMassAndCenter.                           *)
(***************************************************************************)
TreePlaces == {Vec(Num(0), Num(0)), Vec(Num(1), Num(0)), Vec(Num(0), Num(1)), Vec(Num(3), Num(3))}
TreeMasses == {Num(1), Num(2)}

TreeBody(id, place, mass) == NewBody(id, place, VZero, mass, Num(1), FALSE)

\* the body lists of n bodies
TreeScenesOf(n) ==
    {[i \in 1..n |-> TreeBody(i, places[i], masses[i])] :
        places \in [1..n -> TreePlaces], masses \in [1..n -> TreeMasses]}

TreeScenes == UNION {TreeScenesOf(n) : n \in 0..MaxBodies}

\* the InsertBody call that is still to run
Pending(path, id) == [path |-> path, id |-> id]

\* InsertBody: return
Returned(nodes) == [nodes |-> nodes, stack |-> <<>>]

\* InsertBody: current = current->children[quadrant].get(); continue
ContinueAt(nodes, path, id) == [nodes |-> nodes, stack |-> <<Pending(path, id)>>]

\* InsertBody, the occupied leaf is subdivided: the existing body goes to its
\* quadrant and the loop goes on in the quadrant of the new body
SplitLeaf(nodes, path, current, existingBody, body, bs) ==
    ContinueAt(InsertBody(MakeInternal(nodes, path),
                          Append(path, GetQuadrant(current, existingBody.pos)),
                          existingBody, bs),
               Append(path, GetQuadrant(current, body.pos)), body.id)

\* InsertBody on an occupied leaf
InsertOccupied(nodes, path, current, existingBody, body, bs) ==
    IF Colocated(existingBody.pos, body.pos) THEN Returned(nodes)
    ELSE SplitLeaf(nodes, path, current, existingBody, body, bs)

\* InsertBody, one iteration of while (true) with `current` the node at `path`
InsertAt(nodes, path, current, body, bs) ==
    IF ~Contains(current, body.pos) THEN Returned(nodes)
    ELSE IF current.isLeaf
    THEN IF current.body = NoBody
         THEN Returned([nodes EXCEPT ![path].body = body.id])
         ELSE InsertOccupied(nodes, path, current, BodyById(bs, current.body), body, bs)
    ELSE ContinueAt(nodes, Append(path, GetQuadrant(current, body.pos)), body.id)

InsertIteration(nodes, call, bs) ==
    InsertAt(nodes, call.path, nodes[call.path], BodyById(bs, call.id), bs)

\* BuildTree up to the insertion loop
BuildBegin ==
    /\ build.pc = "idle"
    /\ build' = IF Len(bodies) = 0 THEN [NoBuild EXCEPT !.pc = "done"]
                ELSE [pc |-> "inserting", next |-> 1, stack |-> <<>>,
                      nodes |-> RootAt(CalculateBounds(bodies))]

\* BuildTree, for (const auto& body : bodies): the root's Contains test
BuildNextBody ==
    /\ build.pc = "inserting"
    /\ build.stack = <<>>
    /\ build.next <= Len(bodies)
    /\ build' = [build EXCEPT
                    !.next = build.next + 1,
                    !.stack = IF Contains(build.nodes[RootPath], bodies[build.next].pos)
                              THEN <<Pending(RootPath, bodies[build.next].id)>>
                              ELSE <<>>]

\* the result of one InsertBody iteration stored back
StoreInsert(r) == build' = [build EXCEPT !.nodes = r.nodes, !.stack = r.stack]

\* InsertBody, one iteration of its loop
BuildInsert ==
    /\ build.pc = "inserting"
    /\ build.stack # <<>>
    /\ StoreInsert(InsertIteration(build.nodes, build.stack[1], bodies))

\* BuildTree after the insertion loop
BuildFinish ==
    /\ build.pc = "inserting"
    /\ build.stack = <<>>
    /\ build.next > Len(bodies)
    /\ build' = [build EXCEPT !.pc = "done",
                              !.nodes = UpdateMassAndCenter(build.nodes, RootPath, bodies)]

\* a step of BuildTree changes nothing but the tree
TreeAlone ==
    buildSteps' = buildSteps + 1 /\ UNCHANGED <<physVars, trailVars, appVars, eventVars, sampleVars, raceVars>>

TreeInit ==
    /\ bodies \in TreeScenes
    /\ initial = bodies
    /\ config = ConfigOf(FALSE, TRUE, TRUE, Num(1), Frac(1, 2))
    /\ m_gpuAvailable = FALSE
    /\ m_barnesHutTree = NullTree
    /\ stats = NoStats
    /\ pc = "idle"
    /\ actualDt = RZero
    /\ phaseLog = <<>>
    /\ stepsDone = 0
    /\ callN = 0 - 1
    /\ build = NoBuild
    /\ buildSteps = 0

TreeNext ==
    \/ BuildBegin /\ TreeAlone
    \/ BuildNextBody /\ TreeAlone
    \/ BuildInsert /\ TreeAlone
    \/ BuildFinish /\ TreeAlone

TreeStart == TreeInit /\ TrailQuiet /\ AppQuiet /\ EventQuiet /\ SampleQuiet /\ RaceQuiet
SpecTree == TreeStart /\ [][TreeNext]_vars

\* BuildTree has a statement left to run: one of the disjuncts of TreeNext is enabled
TreeRunning == build.pc # "done"

\* some statement of BuildTree runs: every step of TreeNext is such a step
TreeTick == TreeRunning /\ buildSteps' = buildSteps + 1

\* a call of BuildTree runs on until it returns
SpecTreeFair == SpecTree /\ WF_buildSteps(TreeTick)

(***************************************************************************)
(* The second implementation of BarnesHutTree in the repository, whose      *)
(* InsertBody is recursive: every pending call is an entry of build.stack,  *)
(* the innermost first.                                                     *)
(***************************************************************************)
\* static constexpr float LOCAL_MIN_NODE_SIZE = 1.0f
LOCAL_MIN_NODE_SIZE == Num(1)

\* size *= 1.1f
RecBoundsPadding == Frac(11, 10)

\* CalculateBounds: center and size from the corners minPos, maxPos
RecBoundsBetween(minPos, maxPos) ==
    [center |-> VScale(VAdd(minPos, maxPos), Frac(1, 2)),
     size |-> RMax(RMul(RMax(RSub(maxPos.x, minPos.x), RSub(maxPos.y, minPos.y)),
                        RecBoundsPadding),
                   LOCAL_MIN_NODE_SIZE)]

\* BarnesHutTree::CalculateBounds (non-empty list)
RecCalculateBounds(bs) ==
    LET xs == [i \in 1..Len(bs) |-> bs[i].pos.x]
        ys == [i \in 1..Len(bs) |-> bs[i].pos.y]
    IN  RecBoundsBetween(Vec(MinOver(xs, 1), MinOver(ys, 1)),
                         Vec(MaxOver(xs, 1), MaxOver(ys, 1)))

\* InsertBody on an occupied leaf: the leaf is subdivided without a look at the
\* two positions and both bodies are inserted into the node again
RecSplitLeaf(nodes, call, existing, rest) ==
    [nodes |-> MakeInternal(nodes, call.path),
     stack |-> <<Pending(call.path, existing), Pending(call.path, call.id)>> \o rest]

\* BarnesHutTree::InsertBody, the body of one call with `node` the node at call.path
RecInsertAt(nodes, call, node, position, rest) ==
    IF ~Contains(node, position) THEN [nodes |-> nodes, stack |-> rest]
    ELSE IF node.isLeaf
    THEN IF node.body = NoBody
         THEN [nodes |-> [nodes EXCEPT ![call.path].body = call.id], stack |-> rest]
         ELSE RecSplitLeaf(nodes, call, node.body, rest)
    ELSE [nodes |-> nodes,
          stack |-> <<Pending(Append(call.path, GetQuadrant(node, position)), call.id)>>
                    \o rest]

RecInsertCall(nodes, stack, bs) ==
    RecInsertAt(nodes, stack[1], nodes[stack[1].path], BodyById(bs, stack[1].id).pos,
                Tail(stack))

\* UpdateMassAndCenter: a child with childMass > 0.0f taken into the running
\* centerOfMass and totalMass of its parent
RecAbsorb(nodes, path, node, child) ==
    IF IsPositive(child.totalMass)
    THEN [nodes EXCEPT
            ![path].centerOfMass =
                VDivide(VAdd(VScale(node.centerOfMass, node.totalMass),
                             VScale(child.centerOfMass, child.totalMass)),
                        RAdd(node.totalMass, child.totalMass)),
            ![path].totalMass = RAdd(node.totalMass, child.totalMass)]
    ELSE nodes

RecAbsorbChild(nodes, path, i) == RecAbsorb(nodes, path, nodes[path], nodes[Append(path, i)])

\* BarnesHutTree::UpdateMassAndCenter
RECURSIVE RecUpdateMassAndCenter(_, _, _)
RecUpdateMassAndCenter(nodes, path, bs) ==
    IF nodes[path].isLeaf
    THEN IF nodes[path].body # NoBody
         THEN [nodes EXCEPT ![path].totalMass = BodyById(bs, nodes[path].body).mass,
                            ![path].centerOfMass = BodyById(bs, nodes[path].body).pos]
         ELSE [nodes EXCEPT ![path].totalMass = RZero,
                            ![path].centerOfMass = VZero]
    ELSE RecAbsorbChild(RecUpdateMassAndCenter(
            RecAbsorbChild(RecUpdateMassAndCenter(
                RecAbsorbChild(RecUpdateMassAndCenter(
                    RecAbsorbChild(RecUpdateMassAndCenter(
                        [nodes EXCEPT ![path].totalMass = RZero,
                                      ![path].centerOfMass = VZero],
                        Append(path, 0), bs), path, 0),
                    Append(path, 1), bs), path, 1),
                Append(path, 2), bs), path, 2),
            Append(path, 3), bs), path, 3)

\* BuildTree up to the insertion loop
RecBuildBegin ==
    /\ build.pc = "idle"
    /\ build' = IF Len(bodies) = 0 THEN [NoBuild EXCEPT !.pc = "done"]
                ELSE [pc |-> "inserting", next |-> 1, stack |-> <<>>,
                      nodes |-> RootAt(RecCalculateBounds(bodies))]

\* BuildTree, for (const auto& body : bodies) InsertBody(m_root.get(), body.get())
RecBuildNextBody ==
    /\ build.pc = "inserting"
    /\ build.stack = <<>>
    /\ build.next <= Len(bodies)
    /\ build' = [build EXCEPT !.next = build.next + 1,
                              !.stack = <<Pending(RootPath, bodies[build.next].id)>>]

\* the innermost pending InsertBody call runs; calls deeper than MaxDepth are
\* not followed
RecBuildInsert ==
    /\ build.pc = "inserting"
    /\ build.stack # <<>>
    /\ Len(build.stack[1].path) <= MaxDepth
    /\ StoreInsert(RecInsertCall(build.nodes, build.stack, bodies))

\* BuildTree after the insertion loop
RecBuildFinish ==
    /\ build.pc = "inserting"
    /\ build.stack = <<>>
    /\ build.next > Len(bodies)
    /\ build' = [build EXCEPT !.pc = "done",
                              !.nodes = RecUpdateMassAndCenter(build.nodes, RootPath, bodies)]

RecTreeNext ==
    \/ RecBuildBegin /\ TreeAlone
    \/ RecBuildNextBody /\ TreeAlone
    \/ RecBuildInsert /\ TreeAlone
    \/ RecBuildFinish /\ TreeAlone

\* BuildTree has a statement left to run: one of the disjuncts of RecTreeNext is
\* enabled
RecTreeRunning ==
    /\ build.pc # "done"
    /\ build.stack # <<>> => Len(build.stack[1].path) <= MaxDepth

\* some statement of BuildTree runs: every step of RecTreeNext is such a step
RecTreeTick == RecTreeRunning /\ buildSteps' = buildSteps + 1

\* a call of BuildTree runs on until it returns
SpecRecTree == TreeStart /\ [][RecTreeNext]_vars /\ WF_buildSteps(RecTreeTick)

(***************************************************************************)
(* Claims about the trail ring buffer.                                     *)
(***************************************************************************)
\* C1: after AddPoint(p) the trail is the previous ordered contents with p
\* appended as newest, the oldest dropped only if the trail was full; the trail
\* always equals the abstract bounded sequence of the most recent points.
C1_AddPointAppendsNewest ==
    /\ GetOrderedPoints = chron
    /\ lastOp.op = "AddPoint" =>
          /\ m_size >= 1
          /\ GetPointResult(m_size - 1) = lastOp.arg
          /\ GetOrderedPoints = Newest(Append(lastOp.pre, lastOp.arg), lastOp.preCap)

\* C2: from an empty trail of capacity C, K > C calls of AddPoint and nothing
\* else leave size C and GetPoint(i) = p(K-C+1+i) for every i in [0, C).
C2_LastCPoints ==
    (pure /\ Len(adds) > m_capacity) =>
        /\ m_size = m_capacity
        /\ \A i \in 0..(m_capacity - 1) :
              GetPointResult(i) = adds[Len(adds) - m_capacity + 1 + i]

\* C2 witness: more points than the capacity were pushed into a trail of
\* capacity at least 2, so the head has wrapped around.
C2_Witness ==
    /\ pure
    /\ m_capacity >= 2
    /\ Len(adds) > m_capacity
    /\ adds[1] # adds[Len(adds)]

\* C3: SetCapacity(k) with k' = max(1, k) leaves the ordered contents unchanged
\* when k' >= size, otherwise keeps exactly the newest k' of them in the same
\* order; the capacity is k' afterwards.
C3_SetCapacityKeepsNewest ==
    lastOp.op = "SetCapacity" =>
        LET kk == IF lastOp.arg >= 1 THEN lastOp.arg ELSE 1
            n == Len(lastOp.pre)
        IN  /\ m_capacity = kk
            /\ IF kk >= n
               THEN GetOrderedPoints = lastOp.pre
               ELSE GetOrderedPoints = SubSeq(lastOp.pre, n - kk + 1, n)

\* C3 witness: a SetCapacity that had to discard old points, the discarded
\* oldest point differing from the newest one.
C3_Witness ==
    /\ lastOp.op = "SetCapacity"
    /\ Len(lastOp.pre) > m_capacity
    /\ lastOp.pre[1] # lastOp.pre[Len(lastOp.pre)]
    /\ m_size = m_capacity

\* C4: GetPoint(i) outside [0, size) raises out-of-range and leaves contents,
\* size and capacity unchanged; inside it returns the i-th point counted from
\* the oldest point added and still retained.
C4_GetPointByAge ==
    lastOp.op = "GetPoint" =>
        /\ GetOrderedPoints = lastOp.pre
        /\ m_capacity = lastOp.preCap
        /\ IF lastOp.arg < 0 \/ lastOp.arg >= m_size
           THEN lastOp.result = OutOfRange
           ELSE /\ lastOp.arg + 1 <= Len(chron)
                /\ lastOp.result = chron[lastOp.arg + 1]

(***************************************************************************)
(* Claims about the physics step.                                           *)
(***************************************************************************)
BodyIndices == 1..Len(bodies)

\* C6: at every point of every Update step, whatever force method runs and
\* whether or not collisions are resolved, a body whose fixed flag is set has
\* exactly the position and exactly the velocity it was constructed with.
C6_FixedBodyFrame ==
    /\ Len(bodies) = Len(initial)
    /\ \A i \in BodyIndices :
          /\ bodies[i].fixed = initial[i].fixed
          /\ bodies[i].fixed => /\ bodies[i].pos = initial[i].pos
                                /\ bodies[i].vel = initial[i].vel

\* a finished step in which a fixed body with a non-zero velocity was hit by a
\* free body that the same step moved
C6_Witness ==
    /\ pc = "idle"
    /\ stepsDone >= 1
    /\ stats.collisions >= 1
    /\ \E i, j \in BodyIndices :
          /\ bodies[i].fixed
          /\ bodies[i].vel # VZero
          /\ ~bodies[j].fixed
          /\ bodies[j].pos # initial[j].pos
          /\ bodies[j].vel # initial[j].vel

ExpectedPhases ==
    IF config.enableCollisions THEN <<"forces", "collisions", "integrate">>
    ELSE <<"forces", "integrate">>

\* C7: an Update call on a non-empty list runs its phases strictly in the
\* order forces, collisions (exactly when collisions are enabled), integration:
\* what has run so far is always a prefix of that order, the call ends with
\* all of it run, and no position or velocity is integrated before the
\* integration phase is reached.
C7_PhaseOrder ==
    /\ Len(phaseLog) <= Len(ExpectedPhases)
    /\ phaseLog = SubSeq(ExpectedPhases, 1, Len(phaseLog))
    /\ (pc = "idle" /\ stepsDone >= 1 /\ Len(bodies) > 0) => phaseLog = ExpectedPhases
    /\ pc = "forces" => phaseLog = <<>>
    /\ pc = "collisions" => (phaseLog = <<"forces">> /\ config.enableCollisions)
    /\ pc = "integrate" => (Len(phaseLog) >= 1 /\ Len(phaseLog) = Len(ExpectedPhases) - 1)

\* a finished step that resolved a collision between its force and integration phases
C7_Witness ==
    /\ pc = "idle"
    /\ phaseLog = <<"forces", "collisions", "integrate">>
    /\ stats.collisions >= 1
    /\ \E i \in BodyIndices : bodies[i].pos # initial[i].pos

\* C8: a CalculateForces call on n bodies runs one method, the first whose
\* rule matches: GPU (which runs the naive direct kernel) when useGPU and a GPU
\* is available; else Barnes-Hut when useBarnesHut and n > maxBodiesForDirect;
\* else Morton-ordered direct when n > 100; else blocked direct when n > 50;
\* else naive direct.
C8_MethodSelection ==
    callN >= 0 =>
        LET gpu == config.useGPU /\ m_gpuAvailable
            bh == config.useBarnesHut /\ callN > config.maxBodiesForDirect
        IN  /\ gpu => /\ stats.method = "GPU"
                      /\ stats.kernels = <<"CalculateForcesGPU", "CalculateForcesDirect">>
            /\ (~gpu /\ bh) => /\ stats.method = "Barnes-Hut"
                               /\ stats.kernels = <<"CalculateForcesBarnesHut">>
            /\ (~gpu /\ ~bh /\ callN > 100) =>
                  /\ stats.method = "Spatial-Optimized"
                  /\ stats.kernels = <<"CalculateForcesSpatiallyOptimized">>
            /\ (~gpu /\ ~bh /\ callN <= 100 /\ callN > 50) =>
                  /\ stats.method = "Block-Optimized"
                  /\ stats.kernels = <<"CalculateForcesOptimized">>
            /\ (~gpu /\ ~bh /\ callN <= 50) =>
                  /\ stats.method = "Direct"
                  /\ stats.kernels = <<"CalculateForcesDirect">>

\* a call on 51 bodies with the GPU off and the tree threshold above 51
C8_Witness ==
    /\ callN = 51
    /\ ~config.useGPU
    /\ config.useBarnesHut
    /\ config.maxBodiesForDirect > 51
    /\ stats.method = "Block-Optimized"

\* two forces that agree within the tolerance of the force comparisons
Close(u, v) ==
    /\ RLeq(RAbs(RSub(u.x, v.x)), Frac(1, 100))
    /\ RLeq(RAbs(RSub(u.y, v.y)), Frac(1, 100))

\* C9: after a naive direct force pass over two free bodies, A at the origin
\* and B at (d, 0), A's force points along +x, B's along -x, and both have the
\* magnitude G * m_A * m_B / (d^2 + eps^2), within tolerance.
C9_TwoBodyThirdLaw ==
    (stats.method = "Direct" /\ callN = 2 /\ ~bodies[1].fixed /\ ~bodies[2].fixed) =>
        LET a == bodies[1]
            b == bodies[2]
            delta == RSub(b.pos.x, a.pos.x)
            softened == RAdd(RMul(delta, delta),
                             RMul(config.softeningLength, config.softeningLength))
            expected == RDiv(RMul(config.gravitationalConstant, RMul(a.mass, b.mass)),
                             softened)
        IN  /\ IsPositive(a.force.x)
            /\ IsPositive(RNeg(b.force.x))
            /\ Close(a.force, Vec(expected, RZero))
            /\ Close(b.force, Vec(RNeg(expected), RZero))

\* C10: after a Barnes-Hut pass with theta = 0 every free body holds the force
\* the naive direct pass gives it for the same bodies and configuration, within
\* tolerance.
C10_TreeMatchesDirect ==
    (stats.method = "Barnes-Hut" /\ config.barnesHutTheta = RZero) =>
        \A i \in BodyIndices :
            ~bodies[i].fixed =>
                Close(bodies[i].force,
                      CalculateForcesDirect(ClearForces(bodies), config)[i].force)

(***************************************************************************)
(* Claims about the application's cached handles.                           *)
(***************************************************************************)
\* C5: after any sequence of additions, removals, clears, preset loads and
\* mouse and keyboard events, the selected-body handle and the dragged-body
\* handle are each null or the address of a body that is in the store.
C5_HandlesValid ==
    /\ m_selectedBody = NoBody \/ InStore(bodies, m_selectedBody)
    /\ m_draggedBody = NoBody \/ InStore(bodies, m_draggedBody)

\* a body that a handle referred to has been removed, and a body added since
\* has been selected and is being dragged
C5_Witness ==
    /\ removedHeld
    /\ m_selectedBody # NoBody
    /\ m_draggedBody = m_selectedBody
    /\ \E i \in BodyIndices : bodies[i].id = m_draggedBody /\ bodies[i].dragged

(***************************************************************************)
(* Claims about the bodies of the store.                                   *)
(***************************************************************************)
\* C11: every body in the store has mass >= 0.1 and density >= 0.001 after any
\* sequence of body creations, SetMass and SetDensity calls.
C11_MassDensityValid ==
    \A i \in 1..Len(bodies) :
        /\ RLeq(Frac(1, 10), bodies[i].mass)
        /\ RLeq(Frac(1, 1000), bodies[i].density)

(***************************************************************************)
(* Claims about the quadtree BuildTree leaves behind.                       *)
(***************************************************************************)
\* a node with children
HasChildren(nodes, path) == Append(path, 0) \in DOMAIN nodes

\* the bodies of the list a node's body pointer refers to
Held(nodes, path) == {i \in 1..Len(bodies) : bodies[i].id = nodes[path].body}

OccupiedLeaves(nodes) ==
    {p \in DOMAIN nodes : ~HasChildren(nodes, p) /\ nodes[p].body # NoBody}

\* C12: after BuildTree every non-empty leaf of the quadtree holds exactly one
\* body pointer and every internal node (a node with children) holds none.
C12_LeafHoldsOneInternalNone ==
    build.pc = "done" =>
        \A p \in DOMAIN build.nodes :
            /\ HasChildren(build.nodes, p) => build.nodes[p].body = NoBody
            /\ p \in OccupiedLeaves(build.nodes) => Cardinality(Held(build.nodes, p)) = 1

\* a built tree with an internal node and two occupied leaves
C12_Witness ==
    /\ build.pc = "done"
    /\ \E p \in DOMAIN build.nodes : HasChildren(build.nodes, p)
    /\ Cardinality(OccupiedLeaves(build.nodes)) >= 2

\* the masses of the four children of a node added up
ChildrenMass(nodes, path) ==
    RAdd(RAdd(nodes[Append(path, 0)].totalMass, nodes[Append(path, 1)].totalMass),
         RAdd(nodes[Append(path, 2)].totalMass, nodes[Append(path, 3)].totalMass))

\* centerOfMass * totalMass of a node
Moment(node) == VScale(node.centerOfMass, node.totalMass)

\* the moments of the four children of a node added up
ChildrenMoment(nodes, path) ==
    VAdd(VAdd(Moment(nodes[Append(path, 0)]), Moment(nodes[Append(path, 1)])),
         VAdd(Moment(nodes[Append(path, 2)]), Moment(nodes[Append(path, 3)])))

\* the body an occupied leaf holds
HeldBody(nodes, path) == BodyById(bodies, nodes[path].body)

\* C13: after BuildTree every internal node has totalMass equal to the sum of its
\* children's totalMass and, when that is positive, centerOfMass equal to the sum
\* of its children's centerOfMass * totalMass divided by its totalMass; every
\* occupied leaf has the mass and the position of the body it holds.
C13_MassAndCenterOfMass ==
    build.pc = "done" =>
        \A p \in DOMAIN build.nodes :
            /\ HasChildren(build.nodes, p) =>
                  /\ build.nodes[p].totalMass = ChildrenMass(build.nodes, p)
                  /\ IsPositive(build.nodes[p].totalMass) =>
                        build.nodes[p].centerOfMass =
                            VDivide(ChildrenMoment(build.nodes, p), build.nodes[p].totalMass)
            /\ p \in OccupiedLeaves(build.nodes) =>
                  /\ build.nodes[p].totalMass = HeldBody(build.nodes, p).mass
                  /\ build.nodes[p].centerOfMass = HeldBody(build.nodes, p).pos

\* a built tree whose root has two children of different mass, so that its centre
\* of mass is not its geometric centre
C13_Witness ==
    /\ build.pc = "done"
    /\ HasChildren(build.nodes, RootPath)
    /\ \E i, j \in 0..3 :
          /\ IsPositive(build.nodes[<<i>>].totalMass)
          /\ RLess(build.nodes[<<i>>].totalMass, build.nodes[<<j>>].totalMass)
    /\ build.nodes[RootPath].centerOfMass # build.nodes[RootPath].center

\* the node of the innermost pending InsertBody call is a leaf that holds a body
\* on the point of the body to insert
OccupiedByColocated(node, position) ==
    /\ Contains(node, position)
    /\ node.isLeaf
    /\ node.body # NoBody
    /\ Colocated(BodyById(bodies, node.body).pos, position)

ColocatedInsert ==
    /\ build.pc = "inserting"
    /\ build.stack # <<>>
    /\ OccupiedByColocated(build.nodes[build.stack[1].path],
                           BodyById(bodies, build.stack[1].id).pos)

\* C14: BuildTree terminates for every finite body list, lists with two or more
\* bodies on one point included: the insertion of a body into a leaf held by a
\* co-located body neither subdivides nor recurses without bound.
C14_BuildTreeTerminates ==
    /\ <>(build.pc = "done")
    /\ [][ColocatedInsert => DOMAIN build'.nodes = DOMAIN build.nodes]_vars

(***************************************************************************)
(* Claims about the resolution of a collision.  `initial` is the pair as    *)
(* HandleCollisions found it, `bodies` the pair as it left it.              *)
(***************************************************************************)
\* ResolveCollision acts on the pair: distance < minDistance && distance > 0.0f
Overlapping(a, b) ==
    /\ RLess(VLength(VSub(b.pos, a.pos)), RAdd(a.radius, b.radius))
    /\ IsPositive(VLength(VSub(b.pos, a.pos)))

\* the unit vector from a to b
NormalOf(a, b) == VDivide(VSub(b.pos, a.pos), VLength(VSub(b.pos, a.pos)))

\* the velocity of b relative to a along the normal
NormalVelocity(a, b, normal) == VDot(VSub(b.vel, a.vel), normal)

Momentum(a, b) == VAdd(VScale(a.vel, a.mass), VScale(b.vel, b.mass))

\* twice the kinetic energy of the pair
TwiceKinetic(a, b) ==
    RAdd(RMul(a.mass, VDot(a.vel, a.vel)), RMul(b.mass, VDot(b.vel, b.vel)))

\* two free bodies of equal mass that overlap on the x-axis and approach each other
HeadOn(a, b) ==
    /\ Movable(a) /\ Movable(b)
    /\ a.mass = b.mass
    /\ Overlapping(a, b)
    /\ a.pos.y = b.pos.y
    /\ a.vel.y = RZero /\ b.vel.y = RZero
    /\ RLess(NormalVelocity(a, b, NormalOf(a, b)), RZero)

Collided == stepsDone >= 1 /\ Len(bodies) = 2

\* C15: resolving the collision of two overlapping movable bodies of equal mass that
\* approach head-on along the x-axis with restitution 1 exchanges their velocities;
\* the momentum and the kinetic energy of the pair are unchanged.
C15_ElasticExchange ==
    (Collided /\ config.restitution = ROne /\ HeadOn(initial[1], initial[2])) =>
        /\ bodies[1].vel = initial[2].vel
        /\ bodies[2].vel = initial[1].vel
        /\ Momentum(bodies[1], bodies[2]) = Momentum(initial[1], initial[2])
        /\ TwiceKinetic(bodies[1], bodies[2]) = TwiceKinetic(initial[1], initial[2])

\* an elastic head-on collision of bodies of different velocity has been resolved
C15_Witness ==
    /\ Collided
    /\ config.restitution = ROne
    /\ HeadOn(initial[1], initial[2])
    /\ initial[1].vel # initial[2].vel
    /\ bodies[1].vel = initial[2].vel

\* exactly one body of the pair is fixed or being dragged
OneHeld(a, b) == Movable(a) # Movable(b)

\* the overlap r_i + r_j - distance of the pair
Overlap(a, b) == RSub(RAdd(a.radius, b.radius), VLength(VSub(b.pos, a.pos)))

\* the displacement of a body between two lists
Displacement(before, after) == VSub(after.pos, before.pos)

\* the held body is where it was and the free body has moved by the whole overlap
\* along the normal, away from the held body
FullCorrection(a, b, a1, b1) ==
    IF Movable(b)
    THEN /\ a1.pos = a.pos
         /\ Displacement(b, b1) = VScale(NormalOf(a, b), Overlap(a, b))
    ELSE /\ b1.pos = b.pos
         /\ Displacement(a, a1) = VScale(NormalOf(a, b), RNeg(Overlap(a, b)))

\* C17: when ResolveCollision handles an overlapping pair of which exactly one body
\* is fixed or being dragged, that body does not move and the other is displaced by
\* the whole overlap r_i + r_j - distance along the normal, so that the pair no
\* longer overlaps.
C17_FreeBodyAbsorbsOverlap ==
    (Collided /\ Overlapping(initial[1], initial[2]) /\ OneHeld(initial[1], initial[2])) =>
        /\ FullCorrection(initial[1], initial[2], bodies[1], bodies[2])
        /\ ~Overlapping(bodies[1], bodies[2])

\* C18: in a collision of a movable body with a fixed or dragged one only the
\* movable body's velocity changes, and its velocity along the normal relative to
\* the held body is afterwards -e times what it was before.
C18_HeldBodyInfinitelyMassive ==
    (/\ Collided
     /\ Overlapping(initial[1], initial[2])
     /\ OneHeld(initial[1], initial[2])
     /\ ~IsPositive(NormalVelocity(initial[1], initial[2], NormalOf(initial[1], initial[2]))))
    =>
        /\ Movable(initial[1]) => bodies[2].vel = initial[2].vel
        /\ Movable(initial[2]) => bodies[1].vel = initial[1].vel
        /\ NormalVelocity(bodies[1], bodies[2], NormalOf(initial[1], initial[2]))
             = RMul(RNeg(config.restitution),
                    NormalVelocity(initial[1], initial[2], NormalOf(initial[1], initial[2])))

(***************************************************************************)
(* Claims about frames and the play/pause controls.                         *)
(***************************************************************************)
Playing == m_running /\ ~m_paused

\* the store after one PhysicsEngine::Update of `deltaTime`
Stepped(deltaTime) ==
    EngineUpdate(bodies, deltaTime, config, m_gpuAvailable, m_barnesHutTree).bodies

\* C16: a frame advances the physics exactly when the application is running and not
\* paused; a frame processed while paused or stopped leaves the position, velocity
\* and accumulated force of every body as they were, and Space toggles between
\* playing and paused.
C16_FrameStepsWhenPlaying ==
    [][/\ lastEvent'.frames # lastEvent.frames =>
            IF Playing THEN \E deltaTime \in FrameTimes : bodies' = Stepped(deltaTime)
            ELSE bodies' = bodies /\ UNCHANGED <<m_barnesHutTree, stats, actualDt>>
       /\ lastEvent'.kind = "SPACE" => (m_running' /\ ~m_paused') = ~Playing]_vars

\* the last frame was processed while paused, after a frame that moved the bodies
C16_Witness ==
    /\ lastEvent.kind = "frame"
    /\ lastEvent.frames >= 2
    /\ m_running /\ m_paused
    /\ bodies # initial

(***************************************************************************)
(* Claims about the integration step.                                       *)
(***************************************************************************)
\* C19: on entry to integration the velocity of every fixed or dragged body is set
\* to zero, so that after every Update step such a body has zero velocity whatever
\* velocity it had when it became fixed or dragged.
C19_HeldBodyAtRest ==
    (pc = "idle" /\ stepsDone >= 1) =>
        \A i \in BodyIndices : IntegrateSkips(bodies[i]) => bodies[i].vel = VZero

(***************************************************************************)
(* The three non-tree force kernels, each called on the same list after     *)
(* the clearing pre-pass of CalculateForces.                                *)
(***************************************************************************)
KernelConfigs ==
    {ConfigOf(FALSE, FALSE, TRUE, eps, Frac(1, 2)) : eps \in {RZero, Frac(1, 100), Num(1)}}

KernelInit ==
    /\ bodies \in ForceScenes
    /\ initial = bodies
    /\ EngineInit
    /\ config \in KernelConfigs

\* the forces a kernel wrote are stored and the kernel is recorded
KernelStore(method, written) ==
    /\ bodies' = written
    /\ stats' = [stats EXCEPT !.method = method, !.kernels = KernelsOf(method)]
    /\ callN' = Len(bodies)
    /\ UNCHANGED <<config, m_gpuAvailable, m_barnesHutTree, pc, actualDt, phaseLog,
                   stepsDone, initial>>

\* CalculateForces, the last branch: CalculateForcesDirect(bodies)
KernelDirect ==
    KernelStore("Direct", CalculateForcesDirect(ClearForces(bodies), config))

\* CalculateForces, the branch above 50 bodies: CalculateForcesOptimized(bodies)
KernelOptimized ==
    KernelStore("Block-Optimized", CalculateForcesOptimized(ClearForces(bodies), config))

\* CalculateForces, the branch above 100 bodies: CalculateForcesSpatiallyOptimized(bodies)
KernelSpatiallyOptimized ==
    KernelStore("Spatial-Optimized",
                CalculateForcesSpatiallyOptimized(ClearForces(bodies), config))

KernelNext ==
    \/ KernelDirect /\ EngineAlone
    \/ KernelOptimized /\ EngineAlone
    \/ KernelSpatiallyOptimized /\ EngineAlone

KernelStart == KernelInit /\ TrailQuiet /\ AppQuiet /\ TreeQuiet /\ EventQuiet /\ SampleQuiet /\ RaceQuiet
SpecKernel == KernelStart /\ [][KernelNext]_vars

\* the forces the naive direct pass writes to the list the run started from
DirectForces == CalculateForcesDirect(ClearForces(initial), config)

\* C20: for the same bodies and config the naive direct, the blocked direct and the
\* Morton-ordered direct pass write the same force to every body (the model sums the
\* pair contributions in index order in all three, so the forces are equal outright).
C20_KernelsAgree ==
    callN = Len(initial) =>
        \A i \in BodyIndices : bodies[i].force = DirectForces[i].force

(***************************************************************************)
(* Claims about the force convention and the step size.                     *)
(***************************************************************************)
\* the body after IntegrateLeapfrog had it taken the stored force as its acceleration
KickedByForce(body) ==
    KickBy(body, VScale(body.force, RMul(actualDt, Frac(1, 2))), actualDt, config)

\* C21: the evaluator returns force per unit target mass and the integrator applies
\* that quantity as the acceleration of the body: an integration step moves every
\* body that is not skipped as the stored force taken as its acceleration moves it,
\* whatever the body's own mass.
C21_ForcePerUnitMassApplied ==
    [][pc = "integrate" =>
        \A i \in BodyIndices :
            ~IntegrateSkips(bodies[i]) => bodies'[i] = KickedByForce(bodies[i])]_vars

(***************************************************************************)
(* PhysicsEngine::Update with the adaptive time step switched on; the       *)
(* stored acceleration of a body is whatever Body::SetAcceleration left.    *)
(***************************************************************************)
\* Body::SetAcceleration
SetAcceleration(body, acceleration) == [body EXCEPT !.acc = acceleration]

AdaptiveScenes ==
    {<<>>} \cup
    {<<SetAcceleration(AxisBody(1, 0, 0, m1, FALSE), Vec(Num(a1), RZero)),
       AxisBody(2, x2, 0, 1, f2)>> :
        m1 \in {1, 2}, a1 \in {0, 1, 100}, x2 \in {3, 8}, f2 \in BOOLEAN}

\* the Time Step slider of the UI runs from 0.001 to 0.1
AdaptiveConfigs ==
    {[ConfigOf(FALSE, FALSE, c, eps, Frac(1, 2)) EXCEPT
          !.adaptiveTimeStep = TRUE, !.timeStep = ts, !.timeScale = sc] :
        c \in BOOLEAN, eps \in {Frac(1, 100), Num(1)},
        ts \in {Frac(16, 1000), Frac(1, 10)}, sc \in {Num(1), Num(2)}}

AdaptiveInit ==
    /\ bodies \in AdaptiveScenes
    /\ initial = bodies
    /\ EngineInit
    /\ config \in AdaptiveConfigs

AdaptiveStart == AdaptiveInit /\ TrailQuiet /\ AppQuiet /\ TreeQuiet /\ EventQuiet /\ SampleQuiet /\ RaceQuiet
SpecAdaptive == AdaptiveStart /\ [][PhysNext]_vars

\* C22: with the adaptive time step enabled, the step size handed to the integrator
\* in every Update call lies in [minTimeStep, maxTimeStep].
C22_AdaptiveStepInRange ==
    (config.adaptiveTimeStep /\ pc = "integrate") =>
        /\ RLeq(config.minTimeStep, actualDt)
        /\ RLeq(actualDt, config.maxTimeStep)

(***************************************************************************)
(* Trail sampling: the integrators of PhysicsEngine called step after step  *)
(* by one thread on a list of bodies with no force on them.                 *)
(***************************************************************************)
\* Body::UpdateTrail: `frameCounter % 5 == 0`
TrailPeriod == 5

\* Body::UpdateTrail, given the counter after `frameCounter++`
UpdateTrail(trail, position, counter) ==
    IF counter % TrailPeriod = 0 THEN Append(trail, position) ELSE trail

\* Body::Update, what it leaves in the body
BodyUpdate(body) ==
    IF body.fixed \/ body.dragged
    THEN [body EXCEPT !.acc = VZero, !.force = VZero]
    ELSE body

\* Body::Update called on bodies[i..] in list order: the counter and the trails after
RECURSIVE UpdateFrom(_, _, _, _)
UpdateFrom(bs, i, counter, trails) ==
    IF i > Len(bs) THEN [frameCounter |-> counter, bodyTrails |-> trails]
    ELSE IF bs[i].fixed \/ bs[i].dragged THEN UpdateFrom(bs, i + 1, counter, trails)
    ELSE UpdateFrom(bs, i + 1, counter + 1,
                    [trails EXCEPT ![i] = UpdateTrail(trails[i], bs[i].pos, counter + 1)])

\* what the loop of IntegrateEuler leaves in the counter and the trails
StoreSampled(r) ==
    /\ frameCounter' = r.frameCounter
    /\ bodyTrails' = r.bodyTrails

SampleScenes ==
    {<<AxisBody(1, 0, 1, 1, f1)>> : f1 \in BOOLEAN} \cup
    {<<AxisBody(1, 0, 1, 1, f1), AxisBody(2, 10, 0, 1, f2)>> : f1 \in BOOLEAN, f2 \in BOOLEAN}

SampleInit ==
    /\ bodies \in SampleScenes
    /\ initial = bodies
    /\ EngineInit
    /\ config = ConfigOf(FALSE, FALSE, FALSE, Num(1), Frac(1, 2))
    /\ frameCounter = 0
    /\ bodyTrails = [i \in 1..Len(bodies) |-> <<>>]
    /\ subSteps = 0

SampleAlone ==
    UNCHANGED <<config, m_gpuAvailable, m_barnesHutTree, stats, pc, actualDt, phaseLog,
                stepsDone, callN, initial, trailVars, appVars, treeVars, eventVars, raceVars>>

\* PhysicsEngine::IntegrateMotion: IntegrateLeapfrog(bodies, deltaTime), which calls
\* neither Body::Update nor Body::AddTrailPoint
SampleLeapfrog(deltaTime) ==
    /\ subSteps < MaxSubSteps
    /\ bodies' = IntegrateLeapfrog(bodies, deltaTime, config)
    /\ subSteps' = subSteps + 1
    /\ UNCHANGED <<frameCounter, bodyTrails>>

\* PhysicsEngine::IntegrateEuler: body->Update(deltaTime) on every body
SampleEuler ==
    /\ subSteps < MaxSubSteps
    /\ bodies' = [i \in 1..Len(bodies) |-> BodyUpdate(bodies[i])]
    /\ StoreSampled(UpdateFrom(bodies, 1, frameCounter, bodyTrails))
    /\ subSteps' = subSteps + 1

SampleNext ==
    \/ \E deltaTime \in StepSizes : SampleLeapfrog(deltaTime) /\ SampleAlone
    \/ SampleEuler /\ SampleAlone

SampleStart == SampleInit /\ TrailQuiet /\ AppQuiet /\ TreeQuiet /\ EventQuiet /\ RaceQuiet
SpecSample == SampleStart /\ [][SampleNext]_vars

\* C23: while the simulation is stepping, every movable body has appended its position
\* to its own trail exactly once for every 5 sub-steps taken, however many bodies
\* there are.
C23_TrailSampledEveryFifthStep ==
    \A i \in BodyIndices :
        ~IntegrateSkips(bodies[i]) => Len(bodyTrails[i]) = subSteps \div TrailPeriod

(***************************************************************************)
(* BuildTree with the QuadTreeNode of BarnesHut_backup.h, the header that   *)
(* declares CalculateForceIterative: its Contains is closed below and open  *)
(* above, GetQuadrant and GetChildCenter are the same.                      *)
(***************************************************************************)
\* BarnesHut_backup.h, QuadTreeNode::Contains, given halfSize = size * 0.5f
BackupWithin(center, halfSize, point) ==
    /\ RLeq(RSubExact(center.x, halfSize), point.x)
    /\ RLess(point.x, RAddExact(center.x, halfSize))
    /\ RLeq(RSubExact(center.y, halfSize), point.y)
    /\ RLess(point.y, RAddExact(center.y, halfSize))

\* BarnesHut_backup.h, QuadTreeNode::Contains
BackupContains(node, point) == BackupWithin(node.center, RHalf(node.size), point)

\* BarnesHutTree::InsertBody over that Contains
RECURSIVE BackupInsertBody(_, _, _, _)
BackupInsertBody(nodes, path, body, bs) ==
    LET current == nodes[path]
    IN  IF ~BackupContains(current, body.pos) THEN nodes
        ELSE IF current.isLeaf
        THEN IF current.body = NoBody
             THEN [nodes EXCEPT ![path].body = body.id]
             ELSE LET existingBody == BodyById(bs, current.body)
                  IN  IF Colocated(existingBody.pos, body.pos) THEN nodes
                      ELSE LET split == MakeInternal(nodes, path)
                               existingQuadrant == GetQuadrant(current, existingBody.pos)
                               placed == BackupInsertBody(split,
                                                          Append(path, existingQuadrant),
                                                          existingBody, bs)
                               newQuadrant == GetQuadrant(current, body.pos)
                           IN  BackupInsertBody(placed, Append(path, newQuadrant), body, bs)
        ELSE BackupInsertBody(nodes, Append(path, GetQuadrant(current, body.pos)), body, bs)

\* InsertBody, the occupied leaf is subdivided
BackupSplitLeaf(nodes, path, current, existingBody, body, bs) ==
    ContinueAt(BackupInsertBody(MakeInternal(nodes, path),
                                Append(path, GetQuadrant(current, existingBody.pos)),
                                existingBody, bs),
               Append(path, GetQuadrant(current, body.pos)), body.id)

\* InsertBody on an occupied leaf
BackupInsertOccupied(nodes, path, current, existingBody, body, bs) ==
    IF Colocated(existingBody.pos, body.pos) THEN Returned(nodes)
    ELSE BackupSplitLeaf(nodes, path, current, existingBody, body, bs)

\* InsertBody, one iteration of while (true) with `current` the node at `path`
BackupInsertAt(nodes, path, current, body, bs) ==
    IF ~BackupContains(current, body.pos) THEN Returned(nodes)
    ELSE IF current.isLeaf
    THEN IF current.body = NoBody
         THEN Returned([nodes EXCEPT ![path].body = body.id])
         ELSE BackupInsertOccupied(nodes, path, current, BodyById(bs, current.body),
                                   body, bs)
    ELSE ContinueAt(nodes, Append(path, GetQuadrant(current, body.pos)), body.id)

\* BuildTree, for (const auto& body : bodies): the root's Contains test
BackupBuildNextBody ==
    /\ build.pc = "inserting"
    /\ build.stack = <<>>
    /\ build.next <= Len(bodies)
    /\ build' = [build EXCEPT
                    !.next = build.next + 1,
                    !.stack = IF BackupContains(build.nodes[RootPath],
                                                bodies[build.next].pos)
                              THEN <<Pending(RootPath, bodies[build.next].id)>>
                              ELSE <<>>]

\* InsertBody, one iteration of its loop
BackupBuildInsert ==
    /\ build.pc = "inserting"
    /\ build.stack # <<>>
    /\ StoreInsert(BackupInsertAt(build.nodes, build.stack[1].path,
                                  build.nodes[build.stack[1].path],
                                  BodyById(bodies, build.stack[1].id), bodies))

BackupTreeNext ==
    \/ BuildBegin /\ TreeAlone
    \/ BackupBuildNextBody /\ TreeAlone
    \/ BackupBuildInsert /\ TreeAlone
    \/ BuildFinish /\ TreeAlone

SpecBackupTree == TreeStart /\ [][BackupTreeNext]_vars

\* the nodes of the tree under construction that have been subdivided
InternalPaths == {path \in DOMAIN build.nodes : ~build.nodes[path].isLeaf}

\* the positions probed in the box of a node: those of the bodies and the node's centre
ProbesOf(node) == {bodies[i].pos : i \in BodyIndices} \cup {node.center}

\* the child of the node at `path` that GetQuadrant chooses for `point`
ChosenChild(path, point) ==
    build.nodes[Append(path, GetQuadrant(build.nodes[path], point))]

\* the body is the one a leaf holds, or lies on the point of the body a leaf holds
Placed(body) ==
    \E path \in DOMAIN build.nodes :
        /\ build.nodes[path].isLeaf
        /\ build.nodes[path].body # NoBody
        /\ Colocated(BodyById(bodies, build.nodes[path].body).pos, body.pos)

\* C24: for every subdivided node and every position contained in its box, the child
\* chosen by GetQuadrant contains that position, and so once BuildTree has returned
\* no body that lies in the root box has been dropped, centre lines included.
C24_ChosenQuadrantContains ==
    /\ \A path \in InternalPaths :
           \A point \in ProbesOf(build.nodes[path]) :
               BackupContains(build.nodes[path], point)
                   => BackupContains(ChosenChild(path, point), point)
    /\ build.pc = "done" =>
           \A i \in BodyIndices :
               BackupContains(build.nodes[RootPath], bodies[i].pos) => Placed(bodies[i])

(***************************************************************************)
(* The parallel loop of PhysicsEngine::CalculateForcesBarnesHut on a list   *)
(* of more than 32 bodies: `#pragma omp parallel for schedule(dynamic, 32)` *)
(* hands the receivers to the threads in chunks, and the list is            *)
(* represented by the number of contributions each of two threads computes  *)
(* in its traversals.  `m_stats.forceCalculations++` in                     *)
(* CalculateForceIterative is a plain int increment, a load followed by a   *)
(* store; the threads' increments race, and the interleavings of the loads  *)
(* and stores are the outcomes modelled.                                    *)
(***************************************************************************)
Threads == {1, 2}

\* a thread with `left` contributions to compute
Worker(left) == [pc |-> IF left = 0 THEN "done" ELSE "load", left |-> left, reg |-> 0]

\* CalculateForcesBarnesHut up to the parallel loop: ResetForceCalculations()
PassBegin(work) ==
    /\ passPc = "idle"
    /\ passPc' = "parallel"
    /\ forceCalculations' = 0
    /\ workers' = [t \in Threads |-> Worker(work[t])]
    /\ computed' = 0
    /\ UNCHANGED statsCalculations

\* CalculateForceIterative: totalForce += ...; the load of m_stats.forceCalculations++
CountLoad(t) ==
    /\ passPc = "parallel"
    /\ workers[t].pc = "load"
    /\ workers' = [workers EXCEPT ![t].pc = "store", ![t].reg = forceCalculations]
    /\ computed' = computed + 1
    /\ UNCHANGED <<passPc, forceCalculations, statsCalculations>>

\* CalculateForceIterative: the store of m_stats.forceCalculations++
CountStore(t) ==
    /\ passPc = "parallel"
    /\ workers[t].pc = "store"
    /\ forceCalculations' = workers[t].reg + 1
    /\ workers' = [workers EXCEPT ![t] = Worker(workers[t].left - 1)]
    /\ UNCHANGED <<passPc, computed, statsCalculations>>

\* CalculateForcesBarnesHut after the loop: m_stats.forceCalculations = treeStats...
PassEnd ==
    /\ passPc = "parallel"
    /\ \A t \in Threads : workers[t].pc = "done"
    /\ passPc' = "done"
    /\ statsCalculations' = forceCalculations
    /\ UNCHANGED <<forceCalculations, workers, computed>>

RaceAlone == UNCHANGED <<physVars, trailVars, appVars, treeVars, eventVars, sampleVars>>

RaceNext ==
    \/ \E work \in [Threads -> 0..MaxWork] : PassBegin(work) /\ RaceAlone
    \/ \E t \in Threads : CountLoad(t) /\ RaceAlone
    \/ \E t \in Threads : CountStore(t) /\ RaceAlone
    \/ PassEnd /\ RaceAlone

RaceStart ==
    RaceQuiet /\ PhysQuiet /\ TrailQuiet /\ AppQuiet /\ TreeQuiet /\ EventQuiet /\ SampleQuiet
SpecRace == RaceStart /\ [][RaceNext]_vars

\* C25: the traversals of the parallel Barnes-Hut pass write no location in common, so
\* the force-calculation count copied into the stats after the pass is the number of
\* contributions computed, under every interleaving of the threads.
C25_CountEqualsContributions ==
    passPc = "done" => statsCalculations = computed

(***************************************************************************)
(* The application with an engine that takes the tree method for every      *)
(* non-empty store.                                                         *)
(***************************************************************************)
TreeAppConfig ==
    [ConfigOf(FALSE, TRUE, TRUE, Num(1), Frac(1, 2)) EXCEPT !.maxBodiesForDirect = 0]

TreeAppInit ==
    /\ bodies = <<>>
    /\ initial = <<>>
    /\ config = TreeAppConfig
    /\ m_gpuAvailable = FALSE
    /\ m_barnesHutTree = NullTree
    /\ stats = NoStats
    /\ pc = "idle"
    /\ actualDt = RZero
    /\ phaseLog = <<>>
    /\ stepsDone = 0
    /\ callN = 0 - 1
    /\ AppQuiet

TreeAppStart == TreeAppInit /\ TrailQuiet /\ TreeQuiet /\ EventQuiet /\ SampleQuiet /\ RaceQuiet
SpecTreeApp == TreeAppStart /\ [][AppNext]_vars

\* the Body* the nodes of the engine's tree hold (QuadTreeNode::body)
TreeBodies ==
    IF m_barnesHutTree.hasRoot
    THEN {m_barnesHutTree.nodes[path].body : path \in DOMAIN m_barnesHutTree.nodes}
             \ {NoBody}
    ELSE {}

\* C26: the quadtree is freed at the step boundary: whenever no step is in progress
\* the engine's tree refers to no body that is not in the body store, whatever
\* Update, RemoveBody and ClearBodies calls came before.
C26_TreeHoldsStoredBodiesOnly ==
    pc = "idle" => \A body \in TreeBodies : InStore(bodies, body)

(***************************************************************************)
(* Claims about the representation of the trail.                            *)
(***************************************************************************)
\* C27: in every CircularTrail state reached by construction, AddPoint, SetCapacity,
\* Clear and Reserve, capacity >= 1, 0 <= size <= capacity, 0 <= head < capacity and
\* the buffer has exactly capacity slots, so AddPoint never writes outside the buffer.
C27_TrailRepresentation ==
    /\ m_capacity >= 1
    /\ 0 <= m_size /\ m_size <= m_capacity
    /\ 0 <= m_head /\ m_head < m_capacity
    /\ Len(m_points) = m_capacity
    /\ trailOk

(***************************************************************************)
(* Claims about the handles and the flags of the application.               *)
(***************************************************************************)
\* C28: a body is flagged being-dragged only while it is the application's dragged
\* body and the left button is held; once the left button has been released,
\* wherever the cursor was, the dragged handle is null and no body is flagged.
C28_DraggedOnlyWhileHeld ==
    /\ \A i \in BodyIndices :
           bodies[i].dragged => (m_draggedBody = bodies[i].id /\ leftButtonDown)
    /\ ~leftButtonDown => m_draggedBody = NoBody

(***************************************************************************)
(* The application at rest (never started) under clicks on the bodies of a  *)
(* preset of two, deletions and clears.                                     *)
(***************************************************************************)
PresetSizes == {0, 2}
ClickKeys == {"C", "DELETE"}

ClickNext ==
    \/ \E deltaTime \in FrameTimes, deleteKeyDown \in BOOLEAN, mouse \in MousePlaces :
          AppUpdate(deltaTime, deleteKeyDown, mouse) /\ TrailIdle
    \/ \E overUI \in BOOLEAN : OnMouseButtonLeftPress(overUI) /\ TrailIdle
    \/ \E overUI \in BOOLEAN : OnMouseButtonLeftRelease(overUI) /\ TrailIdle
    \/ OnMouseButtonRightPress /\ TrailIdle
    \/ \E key \in ClickKeys : OnKeyboard(key) /\ TrailIdle
    \/ \E count \in PresetSizes : LoadPreset(count) /\ TrailIdle

SpecClick == AppStart /\ [][ClickNext]_vars

\* the bodies of the store whose selected flag is set
SelectedBodies == {i \in BodyIndices : bodies[i].selected}

\* C29: after any sequence of clicks, additions, deletions and clears at most one body
\* has its selected flag set, and a body's flag is set exactly when it is the body
\* the application's selected handle refers to.
C29_OneSelectedBody ==
    /\ Cardinality(SelectedBodies) <= 1
    /\ \A i \in BodyIndices : bodies[i].selected <=> m_selectedBody = bodies[i].id

(***************************************************************************)
(* Claims about the mass the tree accounts for.                             *)
(***************************************************************************)
\* the masses of bs[i..] added up
RECURSIVE MassFrom(_, _)
MassFrom(bs, i) == IF i > Len(bs) THEN RZero ELSE RAdd(bs[i].mass, MassFrom(bs, i + 1))

\* C30: after BuildTree the root's totalMass is the sum of the masses of all bodies of
\* the input list, bodies at coincident positions and on node boundaries included.
C30_RootMassIsTotalMass ==
    (build.pc = "done" /\ Len(bodies) > 0) =>
        build.nodes[RootPath].totalMass = MassFrom(bodies, 1)
====
